---- MODULE Spec2Model ----
(***************************************************************************)
(* A model of osmium::relations::Collector (collector.hpp): the two-pass   *)
(* assembly of OSM relations.  Pass 1 copies the relations of interest and *)
(* indexes their members; pass 2 matches each arriving object against the  *)
(* index, stores it, counts down the relations that wait for it and hands  *)
(* completed relations to the complete_relation hook.                      *)
(*                                                                         *)
(* Offsets into the two buffers are modelled as 0-based item indexes: the  *)
(* item at offset k is element k+1 of the sequence that models the buffer. *)
(* Positions in m_relations and in a member list are 0-based as in the     *)
(* code.                                                                   *)
(***************************************************************************)
EXTENDS Integers, Sequences, FiniteSets, TLC

VARIABLES
    phase,              \* "pass1" (inside read_relations), "pass2", "done" (after flush)
    enabled,            \* template arguments TNodes, TWays, TRelations
    m_relations_buffer, \* copies of the kept relations
    m_members_buffer,   \* copies of the member objects
    m_relations,        \* vector of RelationMeta
    m_member_meta,      \* per kind: vector of MemberMeta
    m_count_complete,   \* completions since the last purge
    assert_failed,      \* an assert() of the code was violated
    wanted,             \* history: per index of m_relations, the members keep_member accepted
    seen,               \* history: objects delivered to the pass-2 handler so far
    npos,               \* history: number of pass-2 events so far
    completions,        \* history: complete_relation calls, in call order
    last,               \* history: the most recent operation and the hook calls it made
    rdb,                \* RelationsDatabase: its elements, one per relation added
    mdb,                \* MembersDatabase: its vector of member entries
    prepared,           \* MembersDatabase: prepare() has been called
    tracks,             \* history: number of MembersDatabase::track calls
    offered,            \* history: ids of the objects given to MembersDatabase::add
    dblast,             \* history: the most recent database operation and its callbacks
    m_matcher,          \* StringMatcher: the variant it holds
    test_string,        \* the argument of the most recent StringMatcher::operator()
    result              \* what that call returned, << >> before the first call

collector_vars == << phase, enabled, m_relations_buffer, m_members_buffer, m_relations,
                     m_member_meta, m_count_complete, assert_failed, wanted, seen,
                     npos, completions, last >>

database_vars == << rdb, mdb, prepared, tracks, offered, dblast >>

matcher_vars == << m_matcher, test_string, result >>

vars == << phase, enabled, m_relations_buffer, m_members_buffer, m_relations,
           m_member_meta, m_count_complete, assert_failed, wanted, seen, npos,
           completions, last, rdb, mdb, prepared, tracks, offered, dblast,
           m_matcher, test_string, result >>

(***************************************************************************)
(* Bounds of the model and the input domain.                               *)
(***************************************************************************)
\* total number of member references in the relations read in pass 1
MaxMembers == 2

\* length of a pass-2 stream in which objects may appear more than once
MaxEvents == 3

\* total number of member references in the input of the collector whose
\* members buffer is compacted while relations wait for members
MaxMembersMove == 4

\* the members and objects of that input
MoveMembers == [type : {"way"}, ref : 1 .. 3]

MoveObjects == [type : {"way"}, id : 1 .. 3]

Kinds == {"node", "way", "relation"}

\* kinds of the members and of the pass-2 objects that are enumerated
InputKinds == {"node", "way"}

\* object ids that are enumerated (0 is a legal id)
ObjectIds == 0 .. 1

\* relation ids that are enumerated
RelationIds == {20, 21}

\* instantiations Collector<T, TNodes, TWays, TRelations> that are enumerated
TypeConfigs ==
    { [k \in Kinds |-> TRUE],
      [k \in Kinds |-> k # "node"] }

Objects == [type : InputKinds, id : ObjectIds]

Members == [type : InputKinds, ref : ObjectIds]

\* the argument recorded for an operation that takes no object
NoObject == [type |-> "none", id |-> 0]

RECURSIVE SeqsUpTo(_, _)
SeqsUpTo(S, n) ==
    IF n = 0 THEN { << >> }
    ELSE LET shorter == SeqsUpTo(S, n - 1)
         IN  shorter \cup { Append(s, x) : s \in { t \in shorter : Len(t) = n - 1 }, x \in S }

RECURSIVE SumSeq(_)
SumSeq(s) == IF s = << >> THEN 0 ELSE Head(s) + SumSeq(Tail(s))

(***************************************************************************)
(* RelationMeta and MemberMeta (relations/detail/*.hpp).                   *)
(***************************************************************************)
\* value of MemberMeta::buffer_offset while the object has not been seen
NoOffset == -1

RelationMeta(offset) == [relation_offset |-> offset, need_members |-> 0]

\* RelationMeta(): the value a completed slot of m_relations is reset to
RelationMetaDefault == RelationMeta(0)

increment_need_members(rm) == [rm EXCEPT !.need_members = @ + 1]

got_one_member(rm) == [rm EXCEPT !.need_members = @ - 1]

has_all_members(rm) == rm.need_members = 0

MemberMeta(member_id, relation_pos, member_pos) ==
    [member_id |-> member_id, relation_pos |-> relation_pos,
     member_pos |-> member_pos, buffer_offset |-> NoOffset, removed |-> FALSE]

(***************************************************************************)
(* The collector state as one record, for the operators that model the     *)
(* member functions:                                                       *)
(*   rb     m_relations_buffer      rels   m_relations                     *)
(*   mb     m_members_buffer        mm     m_member_meta                   *)
(*   cnt    m_count_complete        failed an assert() was violated        *)
(*   hooks  the hook calls made so far by the running handler              *)
(*   throws the positions in m_relations of the relations for which the    *)
(*          complete_relation hook of the derived class throws             *)
(*   beyond what a read of m_relations past its end yields: for each       *)
(*          position the relation_offset of the undefined RelationMeta     *)
(***************************************************************************)
Collector ==
    [rb |-> m_relations_buffer, mb |-> m_members_buffer, rels |-> m_relations,
     mm |-> m_member_meta, cnt |-> m_count_complete, failed |-> assert_failed,
     hooks |-> << >>, throws |-> {}, beyond |-> << >>]

(***************************************************************************)
(* Pass 1.                                                                 *)
(***************************************************************************)
\* the member loop of add_relation: st.members is the member list of the
\* copy in the relations buffer, st.rm the RelationMeta under construction,
\* keeps[n+1] what keep_member returns for the member at position n
\* the mutant of add_relation_members that marks the relation as waiting
\* instead of counting the accepted members
RECURSIVE add_relation_members_flag(_, _, _, _)
add_relation_members_flag(st, keeps, relation_index, n) ==
    IF n >= Len(st.members) THEN st
    ELSE LET member == st.members[n + 1]
         IN  IF keeps[n + 1]
             THEN add_relation_members_flag(
                      [st EXCEPT !.mm[member.type] =
                                     Append(@, MemberMeta(member.ref, relation_index, n)),
                                 !.rm.need_members = 1],
                      keeps, relation_index, n + 1)
             ELSE add_relation_members_flag(
                      [st EXCEPT !.members[n + 1].ref = 0],
                      keeps, relation_index, n + 1)

RECURSIVE add_relation_members(_, _, _, _)
add_relation_members(st, keeps, relation_index, n) ==
    IF n >= Len(st.members) THEN st
    ELSE LET member == st.members[n + 1]
         IN  IF keeps[n + 1]
             THEN add_relation_members(
                      [st EXCEPT !.mm[member.type] =
                                     Append(@, MemberMeta(member.ref, relation_index, n)),
                                 !.rm = increment_need_members(@)],
                      keeps, relation_index, n + 1)
             ELSE add_relation_members(
                      [st EXCEPT !.members[n + 1].ref = 0],
                      keeps, relation_index, n + 1)

\* the mutant of add_relation that gives the MemberMeta records the size of
\* m_relations after the push_back
add_relation_next_index(c, relation, keeps) ==
    LET offset == Len(c.rb)
        st == add_relation_members(
                  [members |-> relation.members, mm |-> c.mm, rm |-> RelationMeta(offset)],
                  keeps, Len(c.rels) + 1, 0)
    IN  IF has_all_members(st.rm)
        THEN [c EXCEPT !.mm = st.mm]
        ELSE [c EXCEPT !.mm = st.mm,
                       !.rb = Append(@, [id |-> relation.id, members |-> st.members]),
                       !.rels = Append(@, st.rm)]

\* the mutant of add_relation that commits the copy also when no member was
\* accepted
add_relation_no_rollback(c, relation, keeps) ==
    LET offset == Len(c.rb)
        st == add_relation_members(
                  [members |-> relation.members, mm |-> c.mm, rm |-> RelationMeta(offset)],
                  keeps, Len(c.rels), 0)
    IN  IF has_all_members(st.rm)
        THEN [c EXCEPT !.mm = st.mm,
                       !.rb = Append(@, [id |-> relation.id, members |-> st.members])]
        ELSE [c EXCEPT !.mm = st.mm,
                       !.rb = Append(@, [id |-> relation.id, members |-> st.members]),
                       !.rels = Append(@, st.rm)]

add_relation(c, relation, keeps) ==
    LET offset == Len(c.rb)
        st == add_relation_members(
                  [members |-> relation.members, mm |-> c.mm, rm |-> RelationMeta(offset)],
                  keeps, Len(c.rels), 0)
    IN  IF has_all_members(st.rm)
        THEN \* rollback(): the copy is dropped again
             [c EXCEPT !.mm = st.mm]
        ELSE \* commit()
             [c EXCEPT !.mm = st.mm,
                       !.rb = Append(@, [id |-> relation.id, members |-> st.members]),
                       !.rels = Append(@, st.rm)]

\* HandlerPass1::relation
HandlerPass1_relation(c, relation, keep_relation, keeps) ==
    IF keep_relation THEN add_relation(c, relation, keeps) ELSE c

\* the orders std::sort may leave a vector in: std::sort is not stable, so
\* records with equal member_id end up in any order
IsSortedByMemberId(v) ==
    \A i \in 1 .. Len(v) - 1 : ~(v[i + 1].member_id < v[i].member_id)

SortedOrders(v) ==
    { s \in { [i \in 1 .. Len(v) |-> v[p[i]]] : p \in Permutations(1 .. Len(v)) } :
        IsSortedByMemberId(s) }

\* the results sort_member_meta can produce
sort_member_meta(mm) ==
    { [k \in Kinds |-> IF k = "node" THEN nodes ELSE IF k = "way" THEN ways ELSE relations] :
        nodes \in SortedOrders(mm["node"]),
        ways \in SortedOrders(mm["way"]),
        relations \in SortedOrders(mm["relation"]) }

MembersStored == SumSeq([i \in 1 .. Len(m_relations_buffer) |->
                            Len(m_relations_buffer[i].members)])

\* the members of a relation that keep_member accepted, with their positions
RECURSIVE KeptMembers(_, _, _)
KeptMembers(members, keeps, n) ==
    IF n >= Len(members) THEN << >>
    ELSE LET rest == KeptMembers(members, keeps, n + 1)
         IN  IF keeps[n + 1]
             THEN << [type |-> members[n + 1].type, ref |-> members[n + 1].ref, pos |-> n] >>
                      \o rest
             ELSE rest

(***************************************************************************)
(* Pass 2.                                                                 *)
(***************************************************************************)
\* the mutant of upper_bound that ends the range after the first match
upper_bound_first(v, id) ==
    LET first == CHOOSE i \in 1 .. Len(v) + 1 :
                    /\ i = Len(v) + 1 \/ ~(v[i].member_id < id)
                    /\ \A j \in 1 .. i - 1 : v[j].member_id < id
    IN  IF first <= Len(v) /\ v[first].member_id = id THEN first + 1 ELSE first

\* std::lower_bound / std::upper_bound with operator< on member_id, as
\* 1-based indexes into v (Len(v) + 1 stands for end())
lower_bound(v, id) ==
    CHOOSE i \in 1 .. Len(v) + 1 :
        /\ i = Len(v) + 1 \/ ~(v[i].member_id < id)
        /\ \A j \in 1 .. i - 1 : v[j].member_id < id

upper_bound(v, id) ==
    CHOOSE i \in 1 .. Len(v) + 1 :
        /\ i = Len(v) + 1 \/ id < v[i].member_id
        /\ \A j \in 1 .. i - 1 : ~(id < v[j].member_id)

\* find_member_meta: the std::equal_range, as the set of indexes lo .. hi - 1
find_member_meta(mm, type, id) ==
    [lo |-> lower_bound(mm[type], id), hi |-> upper_bound(mm[type], id)]

RangeOf(range) == range.lo .. range.hi - 1

\* the mutant of count_not_removed that lost the negation
count_removed(v, range) ==
    Cardinality({ i \in RangeOf(range) : v[i].removed })

count_not_removed(v, range) ==
    Cardinality({ i \in RangeOf(range) : ~v[i].removed })

\* get_relation(size_t offset); the assert is checked by the callers below
get_relation(c, offset) == c.rb[offset + 1]

RelationOffsetValid(c, offset) == offset >= 0 /\ offset < Len(c.rb)

MemberOffsetValid(c, offset) == offset >= 0 /\ offset < Len(c.mb)

\* what a call of moving_in_buffer did, for the history of the handler call
moved(c, object, old_offset, new_offset, after) ==
    [c EXCEPT !.hooks = Append(@,
        [hook |-> "moving_in_buffer", object |-> object, old_offset |-> old_offset,
         new_offset |-> new_offset, rels |-> c.rels, mm |-> c.mm, mm_after |-> after])]

\* the mutant of moving_in_buffer that rewrites only the first MemberMeta of
\* the equal-range
moving_in_buffer_first_only(c, old, old_offset, new_offset) ==
    LET object == old[old_offset + 1]
        range == find_member_meta(c.mm, object.type, object.id)
        v == c.mm[object.type]
        after == [c.mm EXCEPT ![object.type] =
                      << >> \o [i \in 1 .. Len(v) |->
                          IF i = range.lo /\ i \in RangeOf(range)
                          THEN [v[i] EXCEPT !.buffer_offset = new_offset]
                          ELSE v[i]]]
    IN  [moved(c, object, old_offset, new_offset, after) EXCEPT
            !.mm = after,
            !.failed = @ \/ \E i \in RangeOf(range) : v[i].buffer_offset # old_offset]

\* moving_in_buffer: old is the members buffer before the compaction
moving_in_buffer(c, old, old_offset, new_offset) ==
    LET object == old[old_offset + 1]
        range == find_member_meta(c.mm, object.type, object.id)
        v == c.mm[object.type]
        after == [c.mm EXCEPT ![object.type] =
                      << >> \o [i \in 1 .. Len(v) |->
                          IF i \in RangeOf(range)
                          THEN [v[i] EXCEPT !.buffer_offset = new_offset]
                          ELSE v[i]]]
    IN  [moved(c, object, old_offset, new_offset, after) EXCEPT
            !.mm = after,
            !.failed = @ \/ \E i \in RangeOf(range) : v[i].buffer_offset # old_offset]

\* Buffer::purge_removed(this): the items flagged removed are dropped, the
\* others keep their order; moving_in_buffer is called for each one that moves
RECURSIVE purge_removed_from(_, _, _, _)
purge_removed_from(c, old, read, write) ==
    IF read >= Len(old) THEN [c EXCEPT !.mb = SelectSeq(old, LAMBDA item : ~item.removed)]
    ELSE IF old[read + 1].removed
         THEN purge_removed_from(c, old, read + 1, write)
         ELSE purge_removed_from(
                  IF read # write THEN moving_in_buffer(c, old, read, write) ELSE c,
                  old, read + 1, write + 1)

purge_removed(c) == purge_removed_from(c, c.mb, 0, 0)

PurgeThreshold == 10000

\* the mutant of possibly_purge_removed_members that purges as soon as the
\* counter reaches the threshold
possibly_purge_at_threshold(c) ==
    LET c1 == [c EXCEPT !.cnt = @ + 1]
    IN  IF c1.cnt >= PurgeThreshold
        THEN [purge_removed(c1) EXCEPT !.cnt = 0]
        ELSE c1

possibly_purge_removed_members(c) ==
    LET c1 == [c EXCEPT !.cnt = @ + 1]
    IN  IF c1.cnt > PurgeThreshold
        THEN [purge_removed(c1) EXCEPT !.cnt = 0]
        ELSE c1

\* get_offset: the assert fails when no MemberMeta is recorded for the object
\* (the range is empty, whether lo is a neighbour's record or the end of the
\* vector); the result is then no offset at all
get_offset(c, type, id) ==
    LET range == find_member_meta(c.mm, type, id)
    IN  IF RangeOf(range) = {}
        THEN [failed |-> TRUE, offset |-> NoOffset]
        ELSE [failed |-> FALSE, offset |-> c.mm[type][range.lo].buffer_offset]

\* m_relations[member_meta.relation_pos()].relation_offset() as
\* get_relation(member_meta) reads it: the vector is indexed unchecked, and
\* past its end the read is undefined and yields the offset c.beyond gives
relation_offset_at(c, relation_pos) ==
    IF relation_pos < Len(c.rels)
    THEN c.rels[relation_pos + 1].relation_offset
    ELSE c.beyond[relation_pos]

\* the inner loop of clear_member_metas over the records i .. hi - 1 of the
\* range: the first record that is not removed and belongs to a relation with
\* the id of this relation is removed; get_relation asserts that the offset
\* it is given lies in the relations buffer
RECURSIVE remove_member_meta_from(_, _, _, _, _)
remove_member_meta_from(c, relation, type, i, hi) ==
    IF i >= hi THEN c
    ELSE LET member_meta == c.mm[type][i]
             offset == relation_offset_at(c, member_meta.relation_pos)
         IN  IF member_meta.removed
             THEN remove_member_meta_from(c, relation, type, i + 1, hi)
             ELSE IF ~RelationOffsetValid(c, offset)
             THEN [c EXCEPT !.failed = TRUE]
             ELSE IF relation.id = get_relation(c, offset).id
             THEN [c EXCEPT !.mm[type][i].removed = TRUE]
             ELSE remove_member_meta_from(c, relation, type, i + 1, hi)

\* the mutant of clear_member_meta that flags the stored object as removed
\* although other relations still need it
clear_member_meta_eager(c, relation, member) ==
    IF member.ref = 0 THEN c
    ELSE LET range == find_member_meta(c.mm, member.type, member.ref)
             v == c.mm[member.type]
             offset == v[range.lo].buffer_offset
             c1 == IF count_not_removed(v, range) >= 1
                   THEN IF MemberOffsetValid(c, offset)
                        THEN [c EXCEPT !.mb[offset + 1].removed = TRUE]
                        ELSE [c EXCEPT !.failed = TRUE]
                   ELSE c
         IN  IF RangeOf(range) = {} THEN [c EXCEPT !.failed = TRUE]
             ELSE remove_member_meta_from(c1, relation, member.type, range.lo, range.hi)

\* one member of the loop of clear_member_metas
clear_member_meta(c, relation, member) ==
    IF member.ref = 0 THEN c
    ELSE LET range == find_member_meta(c.mm, member.type, member.ref)
             v == c.mm[member.type]
             offset == v[range.lo].buffer_offset
             \* if this is the last time this object was needed then mark it as removed
             c1 == IF count_not_removed(v, range) = 1
                   THEN IF MemberOffsetValid(c, offset)
                        THEN [c EXCEPT !.mb[offset + 1].removed = TRUE]
                        ELSE [c EXCEPT !.failed = TRUE]
                   ELSE c
         IN  IF RangeOf(range) = {} THEN [c EXCEPT !.failed = TRUE]
             ELSE remove_member_meta_from(c1, relation, member.type, range.lo, range.hi)

RECURSIVE clear_member_metas_from(_, _, _)
clear_member_metas_from(c, relation, n) ==
    IF n >= Len(relation.members) THEN c
    ELSE clear_member_metas_from(
             clear_member_meta(c, relation, relation.members[n + 1]), relation, n + 1)

clear_member_metas(c, relation_meta) ==
    IF RelationOffsetValid(c, relation_meta.relation_offset)
    THEN clear_member_metas_from(c, get_relation(c, relation_meta.relation_offset), 0)
    ELSE [c EXCEPT !.failed = TRUE]

\* the call of the complete_relation hook: what the user code can observe
complete_relation(c, relation_pos, index, trigger) ==
    [c EXCEPT !.hooks = Append(@,
        [hook |-> "complete_relation", relation_pos |-> relation_pos, index |-> index,
         trigger |-> trigger, rels |-> c.rels, mm |-> c.mm, mb |-> c.mb])]

\* the hook has thrown: the exception leaves find_and_add_object and the
\* handler with the collector as it is
exception(c, relation_pos, index, trigger) ==
    [c EXCEPT !.hooks = Append(@,
        [hook |-> "exception", relation_pos |-> relation_pos, index |-> index,
         trigger |-> trigger, rels |-> c.rels, mm |-> c.mm, mb |-> c.mb])]

\* the mutant of find_and_add_member that clears the meta of the relation
\* before it calls the hook
find_and_add_member_clear_first(c, object, i, trigger) ==
    LET member_meta == c.mm[object.type][i]
        relation_pos == member_meta.relation_pos
    IN  IF member_meta.removed THEN [c |-> c, stop |-> TRUE]
        ELSE IF \/ member_meta.member_id # object.id
                \/ ~(relation_pos < Len(c.rels))
                \/ ~RelationOffsetValid(c, c.rels[relation_pos + 1].relation_offset)
                \/ ~(member_meta.member_pos <
                       Len(get_relation(c, c.rels[relation_pos + 1].relation_offset).members))
        THEN [c |-> [c EXCEPT !.failed = TRUE], stop |-> TRUE]
        ELSE LET c1 == [c EXCEPT !.rels[relation_pos + 1] = got_one_member(@)]
             IN  IF has_all_members(c1.rels[relation_pos + 1])
                 THEN LET c2 == clear_member_metas(c1, c1.rels[relation_pos + 1])
                          c3 == [c2 EXCEPT !.rels[relation_pos + 1] = RelationMetaDefault]
                          c4 == complete_relation(c3, relation_pos, i, trigger)
                      IN  IF relation_pos \in c.throws
                          THEN [c |-> exception(c4, relation_pos, i, trigger),
                                stop |-> TRUE]
                          ELSE [c |-> possibly_purge_removed_members(c4), stop |-> FALSE]
                 ELSE [c |-> c1, stop |-> FALSE]

\* one pass through the body of the second loop of find_and_add_object, for
\* the MemberMeta at index i: the collector afterwards, and whether the loop
\* ends here (the break, a failed assertion, or an exception thrown by the
\* hook)
find_and_add_member(c, object, i, trigger) ==
    LET member_meta == c.mm[object.type][i]
        relation_pos == member_meta.relation_pos
    IN  IF member_meta.removed THEN [c |-> c, stop |-> TRUE]
        ELSE IF \/ member_meta.member_id # object.id
                \/ ~(relation_pos < Len(c.rels))
                \/ ~RelationOffsetValid(c, c.rels[relation_pos + 1].relation_offset)
                \/ ~(member_meta.member_pos <
                       Len(get_relation(c, c.rels[relation_pos + 1].relation_offset).members))
        THEN [c |-> [c EXCEPT !.failed = TRUE], stop |-> TRUE]
        ELSE LET c1 == [c EXCEPT !.rels[relation_pos + 1] = got_one_member(@)]
             IN  IF has_all_members(c1.rels[relation_pos + 1])
                 THEN LET c2 == complete_relation(c1, relation_pos, i, trigger)
                          c3 == clear_member_metas(c2, c2.rels[relation_pos + 1])
                          c4 == [c3 EXCEPT !.rels[relation_pos + 1] = RelationMetaDefault]
                          c5 == possibly_purge_removed_members(c4)
                      IN  IF relation_pos \in c.throws
                          THEN [c |-> exception(c2, relation_pos, i, trigger),
                                stop |-> TRUE]
                          ELSE [c |-> c5, stop |-> FALSE]
                 ELSE [c |-> c1, stop |-> FALSE]

\* the second loop of find_and_add_object, from index i of the range on
RECURSIVE find_and_add_from(_, _, _, _, _)
find_and_add_from(c, object, i, hi, trigger) ==
    IF i >= hi THEN c
    ELSE LET r == find_and_add_member(c, object, i, trigger)
         IN  IF r.stop THEN r.c
             ELSE find_and_add_from(r.c, object, i + 1, hi, trigger)

\* the mutant of set_buffer_offsets that stops after the first MemberMeta
set_buffer_offsets_first(v, range, member_offset) ==
    << >> \o [i \in 1 .. Len(v) |->
                IF i = range.lo
                THEN [v[i] EXCEPT !.buffer_offset = member_offset]
                ELSE v[i]]

\* the first loop of find_and_add_object
set_buffer_offsets(v, range, member_offset) ==
    << >> \o [i \in 1 .. Len(v) |->
                IF i \in RangeOf(range)
                THEN [v[i] EXCEPT !.buffer_offset = member_offset]
                ELSE v[i]]

\* the second loop walking the range from its end to its start
RECURSIVE find_and_add_down(_, _, _, _, _)
find_and_add_down(c, object, lo, i, trigger) ==
    IF i < lo THEN c
    ELSE LET r == find_and_add_member(c, object, i, trigger)
         IN  IF r.stop THEN r.c
             ELSE find_and_add_down(r.c, object, lo, i - 1, trigger)

\* the mutant of find_and_add_object that handles the matches last to first
find_and_add_object_backwards(c, object, trigger) ==
    LET range == find_member_meta(c.mm, object.type, object.id)
        v == c.mm[object.type]
    IN  IF count_not_removed(v, range) = 0
        THEN [c |-> c, found |-> FALSE]
        ELSE LET member_offset == Len(c.mb)
                 c1 == [c EXCEPT
                          !.mb = Append(@, [type |-> object.type, id |-> object.id,
                                            removed |-> FALSE, copy |-> trigger]),
                          !.mm[object.type] = set_buffer_offsets(v, range, member_offset)]
             IN  [c |-> find_and_add_down(c1, object, range.lo, range.hi - 1, trigger),
                  found |-> TRUE]

\* the two loops of find_and_add_object merged into one: the offset of a
\* MemberMeta is set when the loop reaches it
RECURSIVE find_and_add_merged(_, _, _, _, _, _)
find_and_add_merged(c, object, i, hi, member_offset, trigger) ==
    IF i >= hi THEN c
    ELSE LET r == find_and_add_member(
                      [c EXCEPT !.mm[object.type][i].buffer_offset = member_offset],
                      object, i, trigger)
         IN  IF r.stop THEN r.c
             ELSE find_and_add_merged(r.c, object, i + 1, hi, member_offset, trigger)

\* the mutant of find_and_add_object with the two loops merged
find_and_add_object_one_loop(c, object, trigger) ==
    LET range == find_member_meta(c.mm, object.type, object.id)
        v == c.mm[object.type]
    IN  IF count_not_removed(v, range) = 0
        THEN [c |-> c, found |-> FALSE]
        ELSE LET member_offset == Len(c.mb)
                 c1 == [c EXCEPT
                          !.mb = Append(@, [type |-> object.type, id |-> object.id,
                                            removed |-> FALSE, copy |-> trigger])]
             IN  [c |-> find_and_add_merged(c1, object, range.lo, range.hi,
                                           member_offset, trigger),
                  found |-> TRUE]

\* the mutant of find_and_add_object that sets the buffer offset in the
\* vectors of all kinds
find_and_add_object_all_kinds(c, object, trigger) ==
    LET range == find_member_meta(c.mm, object.type, object.id)
        v == c.mm[object.type]
    IN  IF count_not_removed(v, range) = 0
        THEN [c |-> c, found |-> FALSE]
        ELSE LET member_offset == Len(c.mb)
                 c1 == [c EXCEPT
                          !.mb = Append(@, [type |-> object.type, id |-> object.id,
                                            removed |-> FALSE, copy |-> trigger]),
                          !.mm = [node |-> set_buffer_offsets(c.mm["node"],
                                      find_member_meta(c.mm, "node", object.id), member_offset),
                                  way |-> set_buffer_offsets(c.mm["way"],
                                      find_member_meta(c.mm, "way", object.id), member_offset),
                                  relation |-> set_buffer_offsets(c.mm["relation"],
                                      find_member_meta(c.mm, "relation", object.id),
                                      member_offset)]]
             IN  [c |-> find_and_add_from(c1, object, range.lo, range.hi, trigger),
                  found |-> TRUE]

\* find_and_add_object: the collector afterwards and the value returned
find_and_add_object(c, object, trigger) ==
    LET range == find_member_meta(c.mm, object.type, object.id)
        v == c.mm[object.type]
    IN  IF count_not_removed(v, range) = 0
        THEN [c |-> c, found |-> FALSE]
        ELSE LET member_offset == Len(c.mb)
                 c1 == [c EXCEPT
                          !.mb = Append(@, [type |-> object.type, id |-> object.id,
                                            removed |-> FALSE, copy |-> trigger]),
                          !.mm[object.type] = set_buffer_offsets(v, range, member_offset)]
             IN  [c |-> find_and_add_from(c1, object, range.lo, range.hi, trigger),
                  found |-> TRUE]

\* the hook X_not_in_any_relation is called
not_in_any_relation(c, trigger) ==
    [c EXCEPT !.hooks = Append(@,
        [hook |-> "not_in_any_relation", relation_pos |-> 0, index |-> 0,
         trigger |-> trigger, rels |-> c.rels, mm |-> c.mm, mb |-> c.mb])]

\* the mutant of HandlerPass2_object that does not test the template argument
HandlerPass2_object_any_kind(c, types, object, trigger) ==
    LET r == find_and_add_object(c, object, trigger)
    IN  IF r.found THEN r.c ELSE not_in_any_relation(r.c, trigger)

\* HandlerPass2::node / way / relation
HandlerPass2_object(c, types, object, trigger) ==
    IF types[object.type]
    THEN LET r == find_and_add_object(c, object, trigger)
         IN  IF r.found THEN r.c ELSE not_in_any_relation(r.c, trigger)
    ELSE c

\* the mutant of get_incomplete_relations that forgets the has_all_members test
get_incomplete_relations_unfiltered(c) ==
    [i \in 1 .. Len(c.rels) |-> c.rels[i].relation_offset]

\* get_incomplete_relations: a returned pointer is modelled by the offset in
\* the relations buffer it points to
get_incomplete_relations(c) ==
    LET incomplete == SelectSeq(c.rels, LAMBDA rm : ~has_all_members(rm))
    IN  [i \in 1 .. Len(incomplete) |-> incomplete[i].relation_offset]

\* the collector after construction, instantiated with one of configs and
\* with m_count_complete one of counts
CollectorConstructed(configs, counts) ==
    /\ phase = "pass1"
    /\ enabled \in configs
    /\ m_relations_buffer = << >>
    /\ m_members_buffer = << >>
    /\ m_relations = << >>
    /\ m_member_meta = [k \in Kinds |-> << >>]
    /\ m_count_complete \in counts
    /\ assert_failed = FALSE
    /\ wanted = << >>
    /\ seen = {}
    /\ npos = 0
    /\ completions = << >>
    /\ last = [op |-> "construct", arg |-> NoObject, keep_relation |-> FALSE,
               members |-> 0, kept |-> 0, hooks |-> << >>]

\* the two databases after construction
DatabasesConstructed ==
    /\ rdb = << >>
    /\ mdb = << >>
    /\ prepared = FALSE
    /\ tracks = 0
    /\ offered = {}
    /\ dblast = [op |-> "construct", arg |-> 0, added |-> FALSE, callbacks |-> << >>]

\* StringMatcher(): the matcher that never matches
StringMatcherDefault == [variant |-> "always_false"]

MatcherConstructed ==
    /\ m_matcher = StringMatcherDefault
    /\ test_string = << >>
    /\ result = << >>

\* a collector, the databases and a matcher after construction
Constructed(configs, counts) ==
    /\ CollectorConstructed(configs, counts)
    /\ DatabasesConstructed
    /\ MatcherConstructed

Init == Constructed(TypeConfigs, {0})

\* read_relations applies HandlerPass1 to one more relation of the input;
\* the relation has an id of ids, the input holds at most max member
\* references, each one of refs, and the hooks keep_relation and keep_member
\* return values from answers
Pass1RelationWith(id, refs, max, answers) ==
    /\ phase = "pass1"
    /\ \E members \in SeqsUpTo(refs, max - MembersStored), keep_relation \in answers :
         \E keeps \in [1 .. Len(members) -> answers] :
            /\ keep_relation \/ \A n \in DOMAIN keeps : ~keeps[n]
            /\ LET relation == [id |-> id, members |-> members]
                   c == HandlerPass1_relation(Collector, relation, keep_relation, keeps)
                   kept == KeptMembers(members, keeps, 0)
               IN  /\ m_relations_buffer' = c.rb
                   /\ m_relations' = c.rels
                   /\ m_member_meta' = c.mm
                   /\ wanted' = IF keep_relation /\ kept # << >>
                                THEN Append(wanted, kept) ELSE wanted
                   /\ last' = [op |-> "pass1", arg |-> [type |-> "relation", id |-> id],
                               keep_relation |-> keep_relation, members |-> Len(members),
                               kept |-> Len(kept), hooks |-> << >>]
    /\ UNCHANGED << phase, enabled, m_members_buffer, m_count_complete,
                    assert_failed, seen, npos, completions >>
    /\ UNCHANGED << database_vars, matcher_vars >>

\* the relations of the input have distinct ids
Pass1RelationOf(ids, refs, max, answers) ==
    \E id \in ids :
        /\ \A i \in 1 .. Len(m_relations_buffer) : m_relations_buffer[i].id # id
        /\ Pass1RelationWith(id, refs, max, answers)

Pass1Relation(max, answers) == Pass1RelationOf(RelationIds, Members, max, answers)

\* the end of read_relations: the three vectors are sorted
ReadRelationsSort ==
    /\ phase = "pass1"
    /\ phase' = "pass2"
    /\ m_member_meta' \in sort_member_meta(m_member_meta)
    /\ last' = [op |-> "sort", arg |-> NoObject, keep_relation |-> FALSE,
                members |-> 0, kept |-> 0, hooks |-> << >>]
    /\ UNCHANGED << enabled, m_relations_buffer, m_members_buffer, m_relations,
                    m_count_complete, assert_failed, wanted, seen, npos, completions >>
    /\ UNCHANGED << database_vars, matcher_vars >>

\* the positions that a MemberMeta names past the end of m_relations (there
\* are none unless clean_assembled_relations has shortened the vector)
StalePositions ==
    UNION { { m_member_meta[kind][i].relation_pos : i \in 1 .. Len(m_member_meta[kind]) }
            : kind \in Kinds } \ (0 .. Len(m_relations) - 1)

\* what the reads of m_relations past its end can yield in one handler call:
\* for each stale position the offset of a relation of the relations buffer,
\* or an offset outside of it (the length of the buffer stands for all of them)
BeyondChoices == [StalePositions -> 0 .. Len(m_relations_buffer)]

\* the pass-2 handler is called for one object of the stream, with a
\* complete_relation hook that throws for the relations at the positions throws
Pass2ObjectHook(object, throws) ==
    /\ phase = "pass2"
    /\ \E beyond \in BeyondChoices :
       LET c == HandlerPass2_object([Collector EXCEPT !.throws = throws,
                                                      !.beyond = beyond],
                                    enabled, object, npos)
       IN  /\ m_relations' = c.rels
           /\ m_member_meta' = c.mm
           /\ m_members_buffer' = c.mb
           /\ m_count_complete' = c.cnt
           /\ assert_failed' = c.failed
           /\ last' = [op |-> "pass2", arg |-> object, keep_relation |-> FALSE,
                       members |-> 0, kept |-> 0, hooks |-> c.hooks]
           /\ completions' = completions \o
                  LET calls == SelectSeq(c.hooks, LAMBDA h : h.hook = "complete_relation")
                  IN  [i \in 1 .. Len(calls) |->
                          [hook |-> calls[i].hook,
                           relation_pos |-> calls[i].relation_pos,
                           index |-> calls[i].index,
                           trigger |-> calls[i].trigger]]
    /\ seen' = seen \cup {object}
    /\ npos' = npos + 1
    /\ UNCHANGED << phase, enabled, m_relations_buffer, wanted >>
    /\ UNCHANGED << database_vars, matcher_vars >>

\* the pass-2 handler is called for one object of the stream; the hook
\* returns normally
Pass2Object(object) == Pass2ObjectHook(object, {})

\* HandlerPass2::flush at the end of the stream
Flush ==
    /\ phase = "pass2"
    /\ phase' = "done"
    /\ last' = [op |-> "flush", arg |-> NoObject, keep_relation |-> FALSE,
                members |-> 0, kept |-> 0, hooks |-> << >>]
    /\ UNCHANGED << enabled, m_relations_buffer, m_members_buffer, m_relations,
                    m_member_meta, m_count_complete, assert_failed, wanted, seen,
                    npos, completions >>
    /\ UNCHANGED << database_vars, matcher_vars >>

\* every object appears at most once in the stream
Pass2Next == \E object \in Objects \ seen : Pass2Object(object)

Next == Pass1Relation(MaxMembers, BOOLEAN) \/ ReadRelationsSort \/ Pass2Next \/ Flush

Spec == Init /\ [][Next]_vars

\* A collector that has already counted PurgeThreshold - 1 or PurgeThreshold
\* completions since its last purge, so that the next completions reach the
\* purge; the relations of those earlier completions are left out of the
\* model.  The hooks keep_relation and keep_member are the defaults of the
\* class, which return true.
InitPurge ==
    Constructed({ [k \in Kinds |-> TRUE] }, {PurgeThreshold - 1, PurgeThreshold})

NextPurge ==
    Pass1Relation(MaxMembers, {TRUE}) \/ ReadRelationsSort \/ Pass2Next \/ Flush

SpecPurge == InitPurge /\ [][NextPurge]_vars

\* A collector whose complete_relation hook may throw: for each handler call
\* the relations for which the hook throws are chosen freely.  The caller
\* catches the exception and goes on with the stream.
InitThrow == Constructed({ [k \in Kinds |-> TRUE] }, {0})

Pass2Throw ==
    \E object \in Objects \ seen, throws \in SUBSET (0 .. Len(m_relations) - 1) :
        Pass2ObjectHook(object, throws)

NextThrow ==
    Pass1Relation(MaxMembers, {TRUE}) \/ ReadRelationsSort \/ Pass2Throw \/ Flush

SpecThrow == InitThrow /\ [][NextThrow]_vars

\* A pass-2 stream of at most MaxEvents objects in which the same (kind, id)
\* may appear more than once.  A failed assert() ends the run.
InitDup == Constructed({ [k \in Kinds |-> TRUE] }, {0})

Pass2Dup ==
    /\ ~assert_failed
    /\ npos < MaxEvents
    /\ \E object \in Objects : Pass2Object(object)

NextDup ==
    Pass1Relation(MaxMembers, {TRUE}) \/ ReadRelationsSort \/ Pass2Dup \/ Flush

SpecDup == InitDup /\ [][NextDup]_vars

\* A collector that has counted PurgeThreshold completions since its last
\* purge and is given up to MaxMembersMove member references to ways, so
\* that the members buffer is compacted while a relation still waits for
\* members and holds members that have arrived.  The relations and the
\* objects of the stream come in ascending order of their ids.
InitMove == Constructed({ [k \in Kinds |-> TRUE] }, {PurgeThreshold})

Pass2Move ==
    \E object \in MoveObjects \ seen :
        /\ \A earlier \in seen : earlier.id < object.id
        /\ Pass2Object(object)

NextMove ==
    \/ Pass1RelationOf({ id \in RelationIds : \A other \in RelationIds :
                            other < id => \E i \in 1 .. Len(m_relations_buffer) :
                                             m_relations_buffer[i].id = other },
                       MoveMembers, MaxMembersMove, {TRUE})
    \/ ReadRelationsSort
    \/ Pass2Move
    \/ Flush

SpecMove == InitMove /\ [][NextMove]_vars

\* clean_assembled_relations: erase(remove_if(has_all_members)) keeps the
\* entries that wait for members, in their order
clean_assembled_relations(c) ==
    [c EXCEPT !.rels = SelectSeq(@, LAMBDA rm : ~has_all_members(rm))]

\* the derived class calls clean_assembled_relations between two objects of
\* pass 2
CleanAssembledRelations ==
    /\ phase = "pass2"
    /\ ~assert_failed
    /\ m_relations' = clean_assembled_relations(Collector).rels
    /\ last' = [op |-> "clean", arg |-> NoObject, keep_relation |-> FALSE,
                members |-> 0, kept |-> 0, hooks |-> << >>]
    /\ UNCHANGED << phase, enabled, m_relations_buffer, m_members_buffer,
                    m_member_meta, m_count_complete, assert_failed, wanted, seen,
                    npos, completions >>
    /\ UNCHANGED << database_vars, matcher_vars >>

\* A run in which clean_assembled_relations may be called between the
\* objects of pass 2.  A failed assert() ends the run.  The input holds up to
\* three relations with two more member references than the other runs, so
\* that a relation is completed through a MemberMeta of another relation
\* while its own MemberMeta name positions past the end of m_relations.
InitClean == Constructed({ [k \in Kinds |-> TRUE] }, {0})

\* the ids of the relations of the input, in the order of the input
CleanRelationIds == 20 .. 22

CleanMembers == Members \ { [type |-> "way", ref |-> 0] }

CleanObjects == Objects \ { [type |-> "way", id |-> 0] }

Pass1Clean ==
    /\ 20 + Len(m_relations_buffer) \in CleanRelationIds
    /\ Pass1RelationWith(20 + Len(m_relations_buffer), CleanMembers,
                         MaxMembers + 2, {TRUE})

Pass2Clean ==
    /\ ~assert_failed
    /\ \E object \in CleanObjects \ seen : Pass2Object(object)

NextClean ==
    \/ Pass1Clean
    \/ ReadRelationsSort
    \/ Pass2Clean
    \/ CleanAssembledRelations
    \/ Flush

SpecClean == InitClean /\ [][NextClean]_vars


\* An input in which every relation carries the same id and the members are
\* references to the ways 1 and 2, at most MaxMembers + 1 of them.
SameIdMembers == [type : {"way"}, ref : 1 .. 2]

SameIdObjects == [type : {"way"}, id : 1 .. 2]

InitSameId == Constructed({ [k \in Kinds |-> TRUE] }, {0})

Pass1SameId == Pass1RelationWith(20, SameIdMembers, MaxMembers + 1, {TRUE})

Pass2SameId == \E object \in SameIdObjects \ seen : Pass2Object(object)

NextSameId == Pass1SameId \/ ReadRelationsSort \/ Pass2SameId \/ Flush

SpecSameId == InitSameId /\ [][NextSameId]_vars

(***************************************************************************)
(* possibly_purge_removed_members and moving_in_buffer are public member   *)
(* functions: the pass-2 handler calls the first after every completion    *)
(* and the members buffer calls the second from purge_removed, but a       *)
(* client or a derived class can call them as well.                        *)
(***************************************************************************)
\* number of direct calls of possibly_purge_removed_members that the model
\* follows from a counter at zero
MaxCalls == 2

\* a direct call of possibly_purge_removed_members between two objects of
\* pass 2; the calls that would take the counter through the middle of its
\* range are left out
PossiblyPurgeRemovedMembers ==
    /\ ~assert_failed
    /\ phase = "pass2"
    /\ m_count_complete < MaxCalls \/ m_count_complete >= PurgeThreshold - 1
    /\ LET c == possibly_purge_removed_members(Collector)
       IN  /\ m_members_buffer' = c.mb
           /\ m_member_meta' = c.mm
           /\ m_count_complete' = c.cnt
           /\ assert_failed' = c.failed
           /\ last' = [op |-> "purge", arg |-> NoObject, keep_relation |-> FALSE,
                       members |-> 0, kept |-> 0, hooks |-> c.hooks]
    /\ UNCHANGED << phase, enabled, m_relations_buffer, m_relations, wanted, seen,
                    npos, completions >>
    /\ UNCHANGED << database_vars, matcher_vars >>

\* a direct call of moving_in_buffer(old_offset, new_offset) between two
\* objects of pass 2, with the offset of an item of the members buffer as
\* old_offset and an offset not behind it as new_offset: the MemberMeta of
\* that object are rewritten, the buffer itself is not touched
MovingInBuffer ==
    /\ ~assert_failed
    /\ phase = "pass2"
    /\ \E old_offset \in 0 .. Len(m_members_buffer) - 1 : \E new_offset \in 0 .. old_offset :
          LET c == moving_in_buffer(Collector, m_members_buffer, old_offset, new_offset)
          IN  /\ m_member_meta' = c.mm
              /\ assert_failed' = c.failed
              /\ last' = [op |-> "move",
                          arg |-> [type |-> m_members_buffer[old_offset + 1].type,
                                   id |-> m_members_buffer[old_offset + 1].id],
                          keep_relation |-> FALSE, members |-> 0, kept |-> 0,
                          hooks |-> c.hooks]
    /\ UNCHANGED << phase, enabled, m_relations_buffer, m_members_buffer, m_relations,
                    m_count_complete, wanted, seen, npos, completions >>
    /\ UNCHANGED << database_vars, matcher_vars >>

\* A run in which the client calls the two functions between the steps of
\* the two passes.  A failed assert() ends the run.
InitClient ==
    Constructed({ [k \in Kinds |-> TRUE] }, {0, PurgeThreshold - 1, PurgeThreshold})

\* the relations refer to ways and have their ids in the order of the input;
\* the stream holds ways in the order of their ids, as an OSM file does
Pass1Client ==
    /\ 20 + Len(m_relations_buffer) \in RelationIds
    /\ Pass1RelationWith(20 + Len(m_relations_buffer), MoveMembers,
                         MaxMembers + 1, {TRUE})

Pass2Client ==
    /\ ~assert_failed
    /\ Pass2Move

NextClient ==
    \/ Pass1Client
    \/ ReadRelationsSort
    \/ Pass2Client
    \/ PossiblyPurgeRemovedMembers
    \/ MovingInBuffer
    \/ Flush

SpecClient == InitClient /\ [][NextClient]_vars

(***************************************************************************)
(* RelationsDatabase and MembersDatabase<Way> (relations_database.hpp,     *)
(* members_database.hpp), as used by test_members_database.cpp.  A         *)
(* RelationHandle is the 0-based position of the relation's element in     *)
(* rdb; the handle of a stored member object is the number of the arrival  *)
(* that stored it.                                                         *)
(***************************************************************************)
\* total number of member references tracked in the members database
MaxTracks == 3

DbRelationIds == {20, 21}

DbMemberIds == 1 .. 2

\* the handle of a member entry whose object has not been stored
NoHandle == 0

\* the two databases as one record, for the operators that model the
\* member functions; callbacks are the completion callbacks made so far by
\* the running MembersDatabase::add
Databases == [rdb |-> rdb, mdb |-> mdb, callbacks |-> << >>]

\* RelationsDatabase::add
rdb_add(d, relation) ==
    [d EXCEPT !.rdb = Append(@, [relation |-> relation, need_members |-> 0,
                                 removed |-> FALSE])]

track_member(d, handle) == [d EXCEPT !.rdb[handle + 1].need_members = @ + 1]

notify_member_found(d, handle) == [d EXCEPT !.rdb[handle + 1].need_members = @ - 1]

\* RelationHandle::remove
rdb_remove(d, handle) == [d EXCEPT !.rdb[handle + 1].removed = TRUE]

\* the mutant of rdb_size that counts the relations not removed
rdb_size_live(r) == Cardinality({ i \in 1 .. Len(r) : ~r[i].removed })

\* RelationsDatabase::size
rdb_size(r) == Len(r)

\* RelationsDatabase::get_relations: the handles of the relations not removed
get_relations(r) ==
    SelectSeq([i \in 1 .. Len(r) |-> i - 1], LAMBDA handle : ~r[handle + 1].removed)

\* a member entry as track creates it
element(member_id, relation_pos, member_num) ==
    [member_id |-> member_id, relation_pos |-> relation_pos,
     member_num |-> member_num, object_handle |-> NoHandle, removed |-> FALSE]

\* MembersDatabase::track
mdb_track(d, handle, member_id, member_num) ==
    track_member([d EXCEPT !.mdb = Append(@, element(member_id, handle, member_num))],
                 handle)

\* MembersDatabase::prepare: the orders the sort by (member_id, relation
\* handle) may leave the vector in
mdb_prepare(v) ==
    { s \in { [i \in 1 .. Len(v) |-> v[p[i]]] : p \in Permutations(1 .. Len(v)) } :
        \A i \in 1 .. Len(s) - 1 :
            \/ s[i].member_id < s[i + 1].member_id
            \/ /\ s[i].member_id = s[i + 1].member_id
               /\ s[i].relation_pos <= s[i + 1].relation_pos }

\* the equal-range of the entries with the given member id
mdb_find(v, member_id) ==
    [lo |-> lower_bound(v, member_id), hi |-> upper_bound(v, member_id)]

\* the state of a member entry, as count() classifies it
Status(entry) ==
    IF entry.removed THEN "removed"
    ELSE IF entry.object_handle = NoHandle THEN "tracked" ELSE "available"

\* MembersDatabase::count
mdb_count(v) ==
    [tracked   |-> Cardinality({ i \in 1 .. Len(v) : Status(v[i]) = "tracked" }),
     available |-> Cardinality({ i \in 1 .. Len(v) : Status(v[i]) = "available" }),
     removed   |-> Cardinality({ i \in 1 .. Len(v) : Status(v[i]) = "removed" })]

\* MembersDatabase::size
mdb_size(v) == Len(v)

\* MembersDatabase::remove: the first entry for (member_id, relation_id)
\* that is not removed is marked removed
mdb_remove(d, member_id, relation_id) ==
    LET matching == { i \in RangeOf(mdb_find(d.mdb, member_id)) :
                        /\ ~d.mdb[i].removed
                        /\ d.rdb[d.mdb[i].relation_pos + 1].relation.id = relation_id }
    IN  IF matching = {} THEN d
        ELSE LET first == CHOOSE i \in matching : \A j \in matching : i <= j
             IN  [d EXCEPT !.mdb[first].removed = TRUE]

\* the body of the completion callback of the test: remove every member of
\* the relation, then the relation
RECURSIVE remove_members(_, _, _)
remove_members(d, handle, n) ==
    LET relation == d.rdb[handle + 1].relation
    IN  IF n >= Len(relation.members) THEN d
        ELSE remove_members(mdb_remove(d, relation.members[n + 1], relation.id),
                            handle, n + 1)

\* the completion callback: it sees the databases as they are, and cleans
\* up or leaves the relation alone
on_complete(d, handle, cleanup) ==
    LET called == [d EXCEPT !.callbacks =
                      Append(@, [relation |-> handle, rdb |-> d.rdb, mdb |-> d.mdb])]
    IN  IF cleanup THEN rdb_remove(remove_members(called, handle, 0), handle)
        ELSE called

\* the second loop of MembersDatabase::add over the equal-range
RECURSIVE mdb_add_notify(_, _, _, _)
mdb_add_notify(d, i, hi, cleanup) ==
    IF i >= hi THEN d
    ELSE LET handle == d.mdb[i].relation_pos
             counted == notify_member_found(d, handle)
         IN  mdb_add_notify(IF counted.rdb[handle + 1].need_members = 0
                            THEN on_complete(counted, handle, cleanup)
                            ELSE counted,
                            i + 1, hi, cleanup)

\* the mutant of mdb_add that records the stored object in the first
\* matching entry only
mdb_add_first_only(d, id, object_handle, cleanup) ==
    LET range == mdb_find(d.mdb, id)
    IN  IF \A i \in RangeOf(range) : d.mdb[i].removed
        THEN [d |-> d, added |-> FALSE]
        ELSE [d |-> mdb_add_notify(
                        [d EXCEPT !.mdb = [i \in 1 .. Len(@) |->
                            IF i = range.lo
                            THEN [@[i] EXCEPT !.object_handle = object_handle]
                            ELSE @[i]]],
                        range.lo, range.hi, cleanup),
              added |-> TRUE]

\* MembersDatabase::add: the object with the given id is stored once under
\* object_handle and recorded in every entry of the equal-range, then each
\* of these entries counts its relation down
mdb_add(d, id, object_handle, cleanup) ==
    LET range == mdb_find(d.mdb, id)
    IN  IF \A i \in RangeOf(range) : d.mdb[i].removed
        THEN [d |-> d, added |-> FALSE]
        ELSE [d |-> mdb_add_notify(
                        [d EXCEPT !.mdb = [i \in 1 .. Len(@) |->
                            IF i \in RangeOf(range)
                            THEN [@[i] EXCEPT !.object_handle = object_handle]
                            ELSE @[i]]],
                        range.lo, range.hi, cleanup),
              added |-> TRUE]

\* the number of member references of the relations in the database
DbMembers == SumSeq([i \in 1 .. Len(rdb) |-> Len(rdb[i].relation.members)])

\* the number of entries tracked for the relation with the given handle
Tracked(handle) == Cardinality({ i \in 1 .. Len(mdb) : mdb[i].relation_pos = handle })

\* rdb.add(relation) for a relation with a new id, once the members of the
\* relations added before are tracked; the relations come in ascending
\* order of their ids
DbAddRelation ==
    /\ ~prepared
    /\ tracks = DbMembers
    /\ \E id \in DbRelationIds, members \in SeqsUpTo(DbMemberIds, MaxTracks - DbMembers) :
          /\ \A i \in 1 .. Len(rdb) : rdb[i].relation.id < id
          /\ rdb' = rdb_add(Databases, [id |-> id, members |-> members]).rdb
          /\ dblast' = [op |-> "rdb.add", arg |-> id, added |-> FALSE, callbacks |-> << >>]
    /\ UNCHANGED << mdb, prepared, tracks, offered >>
    /\ UNCHANGED << collector_vars, matcher_vars >>

\* mdb.track(handle, member.ref(), n) for the next member of a relation
DbTrack ==
    /\ ~prepared
    /\ \E handle \in 0 .. Len(rdb) - 1 :
          LET relation == rdb[handle + 1].relation
              n == Tracked(handle)
          IN  /\ n < Len(relation.members)
              /\ ~rdb[handle + 1].removed
              /\ LET d == mdb_track(Databases, handle, relation.members[n + 1], n)
                 IN  /\ rdb' = d.rdb
                     /\ mdb' = d.mdb
              /\ dblast' = [op |-> "track", arg |-> relation.members[n + 1],
                            added |-> FALSE, callbacks |-> << >>]
    /\ tracks' = tracks + 1
    /\ UNCHANGED << prepared, offered >>
    /\ UNCHANGED << collector_vars, matcher_vars >>

\* mdb.prepare(), once every member is tracked
DbPrepare ==
    /\ ~prepared
    /\ tracks = DbMembers
    /\ prepared' = TRUE
    /\ mdb' \in mdb_prepare(mdb)
    /\ dblast' = [op |-> "prepare", arg |-> 0, added |-> FALSE, callbacks |-> << >>]
    /\ UNCHANGED << rdb, tracks, offered >>
    /\ UNCHANGED << collector_vars, matcher_vars >>

\* mdb.add(way, callback) for a way that has not been offered before
DbAdd ==
    /\ prepared
    /\ \E id \in DbMemberIds \ offered, cleanup \in BOOLEAN :
          LET r == mdb_add(Databases, id, Cardinality(offered) + 1, cleanup)
          IN  /\ rdb' = r.d.rdb
              /\ mdb' = r.d.mdb
              /\ offered' = offered \cup {id}
              /\ dblast' = [op |-> "add", arg |-> id, added |-> r.added,
                            callbacks |-> r.d.callbacks]
    /\ UNCHANGED << prepared, tracks >>
    /\ UNCHANGED << collector_vars, matcher_vars >>

\* mdb.remove(member_id, relation_id) outside a callback, for a pair for
\* which an entry is left
DbRemove ==
    /\ prepared
    /\ \E member_id \in DbMemberIds, relation_id \in DbRelationIds :
          /\ mdb_remove(Databases, member_id, relation_id).mdb # mdb
          /\ mdb' = mdb_remove(Databases, member_id, relation_id).mdb
          /\ dblast' = [op |-> "remove",
                        arg |-> [member_id |-> member_id, relation_id |-> relation_id],
                        added |-> FALSE, callbacks |-> << >>]
    /\ UNCHANGED << rdb, prepared, tracks, offered >>
    /\ UNCHANGED << collector_vars, matcher_vars >>

\* rel_handle.remove() outside a callback
DbRemoveRelation ==
    /\ \E handle \in 0 .. Len(rdb) - 1 :
          /\ ~rdb[handle + 1].removed
          /\ rdb' = rdb_remove(Databases, handle).rdb
          /\ dblast' = [op |-> "rel_handle.remove", arg |-> handle, added |-> FALSE,
                        callbacks |-> << >>]
    /\ UNCHANGED << mdb, prepared, tracks, offered >>
    /\ UNCHANGED << collector_vars, matcher_vars >>

InitDb == Constructed({ [k \in Kinds |-> TRUE] }, {0})

NextDb ==
    DbAddRelation \/ DbTrack \/ DbPrepare \/ DbAdd \/ DbRemove \/ DbRemoveRelation

SpecDb == InitDb /\ [][NextDb]_vars

(***************************************************************************)
(* StringMatcher (util/string_matcher.hpp).  A character is a number, 0    *)
(* is the terminating NUL of a C string; a std::string is the sequence of  *)
(* its characters, a const char* the sequence of the characters up to and  *)
(* including the NUL.  Built without OSMIUM_WITH_REGEX.                    *)
(***************************************************************************)
\* length of the stored strings and of the test strings
MaxStrLen == 2

\* number of strings of a list matcher
MaxListLen == 2

\* the characters of the strings
Chars == 1 .. 2

Strings == SeqsUpTo(Chars, MaxStrLen)

NUL == 0

\* std::string::c_str
c_str(str) == Append(str, NUL)

\* std::strlen
RECURSIVE strlen_from(_, _)
strlen_from(s, i) == IF s[i + 1] = NUL THEN 0 ELSE 1 + strlen_from(s, i + 1)

strlen(s) == strlen_from(s, 0)

\* std::string(const char*)
string(s) == SubSeq(s, 1, strlen(s))

\* std::strcmp: negative, zero or positive
RECURSIVE strcmp_from(_, _, _)
strcmp_from(lhs, rhs, i) ==
    IF lhs[i + 1] # rhs[i + 1] THEN (IF lhs[i + 1] < rhs[i + 1] THEN -1 ELSE 1)
    ELSE IF lhs[i + 1] = NUL THEN 0
    ELSE strcmp_from(lhs, rhs, i + 1)

strcmp(lhs, rhs) == strcmp_from(lhs, rhs, 0)

\* the null pointer std::strstr returns when there is no occurrence
NullPointer == -1

\* target occurs in str at position p, compared up to the NUL of target
RECURSIVE occurs_at(_, _, _, _)
occurs_at(str, target, p, i) ==
    IF target[i + 1] = NUL THEN TRUE
    ELSE IF str[p + i + 1] # target[i + 1] THEN FALSE
    ELSE occurs_at(str, target, p, i + 1)

\* std::strstr(str, target): the position of the first occurrence
RECURSIVE strstr_from(_, _, _)
strstr_from(str, target, p) ==
    IF occurs_at(str, target, p, 0) THEN p
    ELSE IF str[p + 1] = NUL THEN NullPointer
    ELSE strstr_from(str, target, p + 1)

strstr(str, target) == strstr_from(str, target, 0)

Min(a, b) == IF a < b THEN a ELSE b

\* std::string::substr(pos, n), for pos <= size()
substr(str, pos, n) == SubSeq(str, pos + 1, pos + Min(n, Len(str) - pos))

\* std::string::compare(const std::string&): negative, zero or positive
RECURSIVE compare_from(_, _, _)
compare_from(lhs, rhs, i) ==
    IF i >= Len(lhs) \/ i >= Len(rhs)
    THEN (IF Len(lhs) < Len(rhs) THEN -1 ELSE IF Len(lhs) > Len(rhs) THEN 1 ELSE 0)
    ELSE IF lhs[i + 1] # rhs[i + 1] THEN (IF lhs[i + 1] < rhs[i + 1] THEN -1 ELSE 1)
    ELSE compare_from(lhs, rhs, i + 1)

compare(lhs, rhs) == compare_from(lhs, rhs, 0)

\* the matcher classes
always_false == [variant |-> "always_false"]

always_true == [variant |-> "always_true"]

equal(str) == [variant |-> "equal", m_str |-> str]

prefix(str) == [variant |-> "prefix", m_str |-> str]

substring(str) == [variant |-> "substring", m_str |-> str]

list(strings) == [variant |-> "list", m_strings |-> strings]

\* StringMatcher(bool result)
StringMatcher(b) == IF b THEN always_true ELSE always_false

\* the matchers a StringMatcher can be constructed with
Matchers ==
    { StringMatcherDefault }
        \cup { StringMatcher(b) : b \in BOOLEAN }
        \cup { equal(str) : str \in Strings }
        \cup { prefix(str) : str \in Strings }
        \cup { substring(str) : str \in Strings }
        \cup { list(strings) : strings \in SeqsUpTo(Strings, MaxListLen) }

\* the mutant of equal_match that compares the first m_str.size() characters
equal_match_strncmp(m, str) ==
    compare(m.m_str, substr(string(str), 0, Len(m.m_str))) = 0

\* equal::match
equal_match(m, str) == strcmp(c_str(m.m_str), str) = 0

\* the mutant of prefix_match that compares with the whole test string
prefix_match_whole(m, str) ==
    compare(substr(m.m_str, 0, Len(m.m_str)), string(str)) = 0

\* prefix::match: m_str.compare(0, npos, test_string, 0, m_str.size())
prefix_match(m, str) ==
    compare(substr(m.m_str, 0, Len(m.m_str)),
            substr(string(str), 0, Len(m.m_str))) = 0

\* the mutant of substring_match that looks for the test string in the
\* stored string
substring_match_swapped(m, str) ==
    strstr(c_str(m.m_str), str) # NullPointer

\* substring::match
substring_match(m, str) == strstr(str, c_str(m.m_str)) # NullPointer

\* list::match: the loop over m_strings
RECURSIVE list_match_from(_, _, _)
list_match_from(m, str, i) ==
    IF i >= Len(m.m_strings) THEN FALSE
    ELSE IF strcmp(c_str(m.m_strings[i + 1]), str) = 0 THEN TRUE
    ELSE list_match_from(m, str, i + 1)

list_match(m, str) == list_match_from(m, str, 0)

\* match_visitor applied to the variant
match_visitor(m, str) ==
    CASE m.variant = "always_false" -> FALSE
      [] m.variant = "always_true" -> TRUE
      [] m.variant = "equal" -> equal_match(m, str)
      [] m.variant = "prefix" -> prefix_match(m, str)
      [] m.variant = "substring" -> substring_match(m, str)
      [] m.variant = "list" -> list_match(m, str)

\* StringMatcher::operator()(const std::string&)
operator_call(m, str) == match_visitor(m, c_str(str))

\* a matcher constructed with any of the matcher classes
InitMatcher ==
    /\ CollectorConstructed({ [k \in Kinds |-> TRUE] }, {0})
    /\ DatabasesConstructed
    /\ m_matcher \in Matchers
    /\ test_string = << >>
    /\ result = << >>

\* the matcher is applied to a test string
Match ==
    /\ \E str \in Strings :
          /\ test_string' = str
          /\ result' = << operator_call(m_matcher, str) >>
    /\ UNCHANGED m_matcher
    /\ UNCHANGED << collector_vars, database_vars >>

NextMatcher == Match

SpecMatcher == InitMatcher /\ [][NextMatcher]_vars

(***************************************************************************)
(* What the input says, independent of the collector's own bookkeeping.    *)
(***************************************************************************)
\* the kept relations, as 1-based indexes into wanted (and into m_relations)
KeptRelations == 1 .. Len(wanted)

TargetOf(member) == [type |-> member.type, id |-> member.ref]

\* every kept member of relation p has appeared in the pass-2 stream
AllSeen(p) == \A k \in 1 .. Len(wanted[p]) : TargetOf(wanted[p][k]) \in seen

\* every kept member of relation p is of a kind enabled at type level
AllEnabled(p) == \A k \in 1 .. Len(wanted[p]) : enabled[wanted[p][k].type]

\* kept members of relation p whose target has not been handled in pass 2
Missing(p) ==
    { k \in 1 .. Len(wanted[p]) : TargetOf(wanted[p][k]) \notin seen }

\* the same, counting an object of a disabled kind as not handled
MissingOrIgnored(p) ==
    { k \in 1 .. Len(wanted[p]) :
        TargetOf(wanted[p][k]) \notin seen \/ ~enabled[wanted[p][k].type] }

TimesCompleted(p) ==
    Cardinality({ i \in 1 .. Len(completions) : completions[i].relation_pos = p - 1 })

\* the complete_relation calls made by the most recent handler call
CompleteCalls ==
    { i \in 1 .. Len(last.hooks) : last.hooks[i].hook = "complete_relation" }

(***************************************************************************)
(* C1.  Every kept relation all of whose kept members have appeared in the *)
(* pass-2 stream has had complete_relation invoked exactly once.           *)
(* As stated (C1_AsStated) this fails when a kept member is of a kind the  *)
(* collector is not instantiated for: its objects are ignored in pass 2.   *)
(* Amended (C1_CompletedExactlyOnce): every kept relation all of whose     *)
(* kept members are of enabled kinds and have appeared in the stream has   *)
(* had complete_relation invoked exactly once.                             *)
(***************************************************************************)
C1_AsStated ==
    \A p \in KeptRelations : AllSeen(p) => TimesCompleted(p) = 1

C1_CompletedExactlyOnce ==
    \A p \in KeptRelations : AllEnabled(p) /\ AllSeen(p) => TimesCompleted(p) = 1

\* two relations share a member and both have been completed, one of them
\* waited for two members
C1_Witness ==
    /\ Len(wanted) >= 1
    /\ \E p \in KeptRelations :
          /\ Len(wanted[p]) = 2
          /\ wanted[p][1] # wanted[p][2]
          /\ AllEnabled(p) /\ AllSeen(p)
          /\ TimesCompleted(p) = 1

(***************************************************************************)
(* C2.  complete_relation(r) is invoked only while the pass-2 handler      *)
(* handles an object that is a kept member of r, and at that moment every  *)
(* kept member of r has appeared in the stream: never before the last      *)
(* outstanding member arrives, and in that member's own handler call.      *)
(***************************************************************************)
C2_CompletedByLastMember ==
    \A i \in CompleteCalls :
        LET p == last.hooks[i].relation_pos + 1
        IN  /\ last.op = "pass2"
            /\ last.hooks[i].trigger = npos - 1
            /\ p \in KeptRelations
            /\ \E k \in 1 .. Len(wanted[p]) : TargetOf(wanted[p][k]) = last.arg
            /\ AllSeen(p)

\* a relation with two different members is completed by the second of them
C2_Witness ==
    \E i \in CompleteCalls :
        LET p == last.hooks[i].relation_pos + 1
        IN  /\ Len(wanted[p]) = 2
            /\ wanted[p][1].type # wanted[p][2].type \/ wanted[p][1].ref # wanted[p][2].ref
            /\ Cardinality(seen) = 2

(***************************************************************************)
(* C3.  After flush, get_incomplete_relations() returns exactly the kept   *)
(* relations with a kept member whose target never appeared in the stream, *)
(* each once, and no assertion has failed.                                 *)
(* As stated (C3_AsStated) this fails when a kept member is of a kind that *)
(* is disabled at type level: its object is ignored when it appears and    *)
(* the relation stays incomplete.                                          *)
(* Amended (C3_IncompleteAfterFlush): ... a kept member whose target never *)
(* appeared in the stream or is of a kind disabled at type level.          *)
(***************************************************************************)
PointersReturned ==
    LET r == get_incomplete_relations(Collector)
    IN  [offsets |-> { r[i] : i \in 1 .. Len(r) }, count |-> Len(r)]

C3_AsStated ==
    phase = "done" =>
        LET expected == { p - 1 : p \in { q \in KeptRelations : Missing(q) # {} } }
        IN  /\ PointersReturned.offsets = expected
            /\ PointersReturned.count = Cardinality(expected)
            /\ ~assert_failed

C3_IncompleteAfterFlush ==
    phase = "done" =>
        LET expected == { p - 1 : p \in { q \in KeptRelations : MissingOrIgnored(q) # {} } }
        IN  /\ PointersReturned.offsets = expected
            /\ PointersReturned.count = Cardinality(expected)
            /\ ~assert_failed

\* after flush one relation is complete and another one is reported
C3_Witness ==
    /\ phase = "done"
    /\ Len(wanted) = 2
    /\ \E p \in KeptRelations : TimesCompleted(p) = 1
    /\ PointersReturned.count = 1
    /\ \E p \in KeptRelations : Missing(p) # {} /\ AllEnabled(p)

(***************************************************************************)
(* C4.  After pass 2 the sum of need_members over m_relations equals the   *)
(* number of kept member references whose target object did not appear in  *)
(* the stream.                                                             *)
(* As stated (C4_AsStated) this fails when a kept member is of a kind that *)
(* is disabled at type level: its object appears but is not counted.       *)
(* Amended (C4_SumNeedMembers): ... whose target object did not appear in  *)
(* the stream or is of a kind disabled at type level.                      *)
(***************************************************************************)
SumNeedMembers ==
    SumSeq([i \in 1 .. Len(m_relations) |-> m_relations[i].need_members])

C4_AsStated ==
    phase = "done" =>
        SumNeedMembers = SumSeq([p \in KeptRelations |-> Cardinality(Missing(p))])

C4_SumNeedMembers ==
    phase = "done" =>
        SumNeedMembers = SumSeq([p \in KeptRelations |-> Cardinality(MissingOrIgnored(p))])

\* after pass 2 one member reference has been resolved and another is open
C4_Witness ==
    /\ phase = "done"
    /\ SumNeedMembers = 1
    /\ \E p \in KeptRelations : Len(wanted[p]) = 2 /\ Cardinality(Missing(p)) = 1
    /\ \A p \in KeptRelations : AllEnabled(p)

(***************************************************************************)
(* C5.  At the moment complete_relation(r) runs, for every member of r     *)
(* whose ref is nonzero the object that get_offset finds for the member's  *)
(* kind and ref is in the members buffer, is that member's object and is   *)
(* not flagged removed; also for members shared with relations completed   *)
(* earlier and after a purge of the members buffer.                        *)
(***************************************************************************)
\* the collector as the hook call h saw it
AtHook(h) ==
    [rb |-> m_relations_buffer, mb |-> h.mb, rels |-> h.rels, mm |-> h.mm,
     cnt |-> 0, failed |-> FALSE, hooks |-> << >>, throws |-> {}, beyond |-> << >>]

C5_MembersLiveAtCompletion ==
    \A i \in CompleteCalls :
        LET c == AtHook(last.hooks[i])
            relation == get_relation(c, c.rels[last.hooks[i].relation_pos + 1].relation_offset)
        IN  \A n \in 1 .. Len(relation.members) :
                LET member == relation.members[n]
                    found == get_offset(c, member.type, member.ref)
                    offset == found.offset
                IN  member.ref # 0 =>
                        /\ ~found.failed
                        /\ MemberOffsetValid(c, offset)
                        /\ c.mb[offset + 1].type = member.type
                        /\ c.mb[offset + 1].id = member.ref
                        /\ ~c.mb[offset + 1].removed

\* a relation is completed whose member was shared with a relation completed
\* before it, after the purge that the first completion brought about
C5_Witness ==
    /\ Len(completions) = 2
    /\ m_count_complete = 1
    /\ \E i \in CompleteCalls :
          LET p == last.hooks[i].relation_pos + 1
          IN  /\ i = Len(last.hooks)
              /\ \E q \in KeptRelations \ {p} :
                    /\ TimesCompleted(q) = 1
                    /\ \E k \in 1 .. Len(wanted[p]), l \in 1 .. Len(wanted[q]) :
                          /\ wanted[p][k].ref # 0
                          /\ TargetOf(wanted[p][k]) = TargetOf(wanted[q][l])

(***************************************************************************)
(* C6.  For a pass-2 object of an enabled kind the X_not_in_any_relation   *)
(* hook is invoked iff no unremoved MemberMeta of that kind has the        *)
(* object's id; then nothing is stored and no MemberMeta or RelationMeta   *)
(* changes.  Otherwise the object is appended to the members buffer and    *)
(* the hook is not invoked.                                                *)
(***************************************************************************)
NoUnremovedMemberMeta(object) ==
    \A i \in 1 .. Len(m_member_meta[object.type]) :
        m_member_meta[object.type][i].member_id = object.id =>
            m_member_meta[object.type][i].removed

NotInAnyRelationCalls(hooks) ==
    { i \in 1 .. Len(hooks) : hooks[i].hook = "not_in_any_relation" }

C6_NotInAnyRelation ==
    [][ (phase = "pass2" /\ npos' = npos + 1 /\ enabled[last'.arg.type]) =>
          IF NoUnremovedMemberMeta(last'.arg)
          THEN /\ Len(last'.hooks) = 1
               /\ NotInAnyRelationCalls(last'.hooks) = {1}
               /\ UNCHANGED << m_members_buffer, m_member_meta, m_relations >>
          ELSE /\ NotInAnyRelationCalls(last'.hooks) = {}
               /\ Len(m_members_buffer') = Len(m_members_buffer) + 1
               /\ m_members_buffer'[Len(m_members_buffer')].type = last'.arg.type
               /\ m_members_buffer'[Len(m_members_buffer')].id = last'.arg.id
      ]_vars

\* an object that no relation refers to arrives after a member was stored,
\* while a MemberMeta of the other kind has its id
C6_Witness ==
    /\ last.op = "pass2"
    /\ enabled[last.arg.type]
    /\ NotInAnyRelationCalls(last.hooks) = {1}
    /\ Len(m_members_buffer) = 1
    /\ \E k \in Kinds \ {last.arg.type} : \E i \in 1 .. Len(m_member_meta[k]) :
          m_member_meta[k][i].member_id = last.arg.id

(***************************************************************************)
(* C7.  A pass-2 event of a kind that is disabled at type level leaves the *)
(* collector unchanged and calls no hook.                                  *)
(***************************************************************************)
C7_DisabledKindIgnored ==
    [][ (phase = "pass2" /\ npos' = npos + 1 /\ ~enabled[last'.arg.type]) =>
          /\ last'.hooks = << >>
          /\ UNCHANGED << m_relations_buffer, m_members_buffer, m_relations,
                          m_member_meta, m_count_complete, assert_failed >>
      ]_vars

\* an object of a disabled kind has arrived that a kept member refers to
C7_Witness ==
    /\ last.op = "pass2"
    /\ ~enabled[last.arg.type]
    /\ \E i \in 1 .. Len(m_member_meta[last.arg.type]) :
          /\ m_member_meta[last.arg.type][i].member_id = last.arg.id
          /\ ~m_member_meta[last.arg.type][i].removed
          /\ m_member_meta[last.arg.type][i].buffer_offset = NoOffset

(***************************************************************************)
(* C8.  A pass-1 relation that keep_relation rejects, or all of whose      *)
(* members keep_member rejects, leaves m_relations, the three MemberMeta   *)
(* vectors and the committed content of the relations buffer unchanged,    *)
(* and so is never reported as complete or incomplete.                     *)
(***************************************************************************)
C8_DroppedRelationLeavesNoTrace ==
    [][ (phase = "pass1" /\ last'.op = "pass1"
            /\ (~last'.keep_relation \/ last'.kept = 0)) =>
          UNCHANGED << m_relations, m_member_meta, m_relations_buffer, wanted,
                       completions >>
      ]_vars

\* a relation with members was kept by keep_relation, but keep_member
\* rejected each member, after another relation had been stored
C8_Witness ==
    /\ last.op = "pass1"
    /\ last.keep_relation
    /\ last.members >= 1
    /\ last.kept = 0
    /\ Len(m_relations) = 1
    /\ Len(m_relations_buffer) = 1

(***************************************************************************)
(* C9.  The complete_relation calls are ordered by the stream position of  *)
(* the triggering object and, for one object, by ascending index of the    *)
(* matching MemberMeta in the sorted vector.                               *)
(***************************************************************************)
C9_CompletionOrder ==
    \A i, j \in 1 .. Len(completions) :
        i < j =>
            \/ completions[i].trigger < completions[j].trigger
            \/ /\ completions[i].trigger = completions[j].trigger
               /\ completions[i].index < completions[j].index

\* one object has completed two relations
C9_Witness ==
    /\ Len(completions) = 2
    /\ completions[1].trigger = completions[2].trigger
    /\ completions[1].relation_pos # completions[2].relation_pos

(***************************************************************************)
(* C10.  Whenever the complete_relation hook runs, every relation that     *)
(* refers to the object being handled has already been counted down for    *)
(* it.                                                                     *)
(* As stated (C10_AsStated) this fails: the loop that counts down calls    *)
(* the hook as soon as one relation is complete, before it reaches the     *)
(* MemberMeta records later in the equal-range.                            *)
(* Amended (C10_OffsetsSetBeforeHooks): whenever the hook runs, every      *)
(* matching MemberMeta has its buffer_offset set to the stored object; the *)
(* relations of the MemberMeta records up to the triggering one have been  *)
(* counted down, those of the records after it have not yet.               *)
(***************************************************************************)
\* indexes of the MemberMeta records of the object handled last
MatchesOfLast ==
    { i \in 1 .. Len(m_member_meta[last.arg.type]) :
        m_member_meta[last.arg.type][i].member_id = last.arg.id }

\* how often relation position rp is still to be counted down after the
\* hook call at index of the vector
CountDownsAfter(rp, index) ==
    Cardinality({ i \in MatchesOfLast :
        i > index /\ m_member_meta[last.arg.type][i].relation_pos = rp })

C10_AsStated ==
    \A i \in CompleteCalls :
        \A p \in 1 .. Len(m_relations) :
            last.hooks[i].rels[p].need_members = m_relations[p].need_members

C10_OffsetsSetBeforeHooks ==
    \A i \in CompleteCalls :
        LET h == last.hooks[i]
        IN  /\ \A k \in MatchesOfLast :
                 LET offset == h.mm[last.arg.type][k].buffer_offset
                 IN  /\ offset >= 0 /\ offset < Len(h.mb)
                     /\ h.mb[offset + 1].type = last.arg.type
                     /\ h.mb[offset + 1].id = last.arg.id
            /\ \A p \in 1 .. Len(m_relations) :
                 h.rels[p].need_members =
                     m_relations[p].need_members + CountDownsAfter(p - 1, h.index)

\* a hook call was made while a relation later in the range was still to be
\* counted down
C10_Witness ==
    \E i \in CompleteCalls :
        \E p \in 1 .. Len(m_relations) :
            CountDownsAfter(p - 1, last.hooks[i].index) >= 1

(***************************************************************************)
(* C11.  If the complete_relation hook throws, the exception leaves the    *)
(* pass-2 handler call and the relation that was being completed has       *)
(* already had its meta cleared: its MemberMeta are marked removed and its *)
(* RelationMeta slot is reset; later calls are safe and never complete     *)
(* that relation again.                                                    *)
(* As stated (C11_AsStated) this fails: the hook is called before          *)
(* clear_member_metas and before the slot is reset.                        *)
(* Amended (C11_ThrowLeavesMetaUncleared): the exception leaves the        *)
(* handler call at once, with the collector as the hook saw it: the        *)
(* relation's need_members is 0, its slot is not reset and none of its     *)
(* MemberMeta is marked removed; the MemberMeta later in the equal-range   *)
(* are not counted down.  Later calls violate no assertion and no relation *)
(* is handed to the hook twice.                                            *)
(***************************************************************************)
\* the hook calls of the most recent handler call that threw
Thrown == { i \in 1 .. Len(last.hooks) : last.hooks[i].hook = "exception" }

\* the MemberMeta records of the relation at position rp of m_relations
MemberMetasOf(rp) ==
    { x \in Kinds \X (1 .. MaxMembers + 2) :
        /\ x[2] <= Len(m_member_meta[x[1]])
        /\ m_member_meta[x[1]][x[2]].relation_pos = rp }

C11_AsStated ==
    \A i \in Thrown :
        LET rp == last.hooks[i].relation_pos
        IN  /\ m_relations[rp + 1] = RelationMetaDefault
            /\ \A x \in MemberMetasOf(rp) :
                   \/ m_member_meta[x[1]][x[2]].member_id = 0
                   \/ m_member_meta[x[1]][x[2]].removed

C11_ThrowLeavesMetaUncleared ==
    /\ ~assert_failed
    /\ \A p \in KeptRelations : TimesCompleted(p) <= 1
    /\ \A i \in Thrown :
          LET h == last.hooks[i]
              rp == h.relation_pos
          IN  /\ i = Len(last.hooks)
              /\ last.hooks[i - 1].hook = "complete_relation"
              /\ last.hooks[i - 1].relation_pos = rp
              /\ m_relations = h.rels
              /\ m_member_meta = h.mm
              /\ m_members_buffer = h.mb
              /\ m_relations[rp + 1].need_members = 0
              /\ LET relation == get_relation(Collector, m_relations[rp + 1].relation_offset)
                 IN  \A k \in 1 .. Len(wanted[rp + 1]) :
                        relation.members[wanted[rp + 1][k].pos + 1] =
                            [type |-> wanted[rp + 1][k].type, ref |-> wanted[rp + 1][k].ref]
              /\ \A x \in MemberMetasOf(rp) :
                     /\ ~m_member_meta[x[1]][x[2]].removed
                     /\ m_member_meta[x[1]][x[2]].buffer_offset # NoOffset
              /\ \A k \in MatchesOfLast :
                     k > h.index =>
                        m_member_meta[last.arg.type][k].buffer_offset = Len(m_members_buffer) - 1

\* the hook threw for the first of two relations that wait for the object
C11_Witness ==
    \E i \in Thrown :
        /\ Len(m_relations) = 2
        /\ \E k \in MatchesOfLast :
              /\ k > last.hooks[i].index
              /\ ~m_member_meta[last.arg.type][k].removed
              /\ m_relations[m_member_meta[last.arg.type][k].relation_pos + 1].need_members = 1

(***************************************************************************)
(* C12.  When the same (kind, id) object appears more than once in the     *)
(* pass-2 stream, every MemberMeta of that (kind, id) whose buffer_offset  *)
(* is set refers to the copy that was stored at the first arrival.         *)
(* This fails (C12_FirstCopyWins): every arrival that finds an unremoved   *)
(* MemberMeta is stored again and the first loop of find_and_add_object    *)
(* overwrites the buffer_offset of every MemberMeta of the equal-range.    *)
(* The formula states the claim for the members with a nonzero id, whose   *)
(* MemberMeta clear_member_metas does not skip.                            *)
(***************************************************************************)
\* the stored copies of the object (type, id), by arrival
CopiesOf(type, id) ==
    { m_members_buffer[k].copy : k \in { j \in 1 .. Len(m_members_buffer) :
        m_members_buffer[j].type = type /\ m_members_buffer[j].id = id } }

C12_FirstCopyWins ==
    \A type \in Kinds : \A i \in 1 .. Len(m_member_meta[type]) :
        LET member_meta == m_member_meta[type][i]
        IN  member_meta.member_id # 0 /\ member_meta.buffer_offset # NoOffset =>
                /\ MemberOffsetValid(Collector, member_meta.buffer_offset)
                /\ \A copy \in CopiesOf(type, member_meta.member_id) :
                       m_members_buffer[member_meta.buffer_offset + 1].copy <= copy

(***************************************************************************)
(* C13.  Also in a stream with duplicate objects each MemberMeta counts    *)
(* its relation down at most once: the arrival of an object that has       *)
(* arrived before changes no need_members, and no relation is handed to    *)
(* complete_relation more than once.                                       *)
(* This fails (C13_CountedOnce): find_and_add_object counts down for every *)
(* unremoved MemberMeta of the equal-range at every arrival, whether or    *)
(* not its buffer_offset was set before, so that a relation is completed   *)
(* while a member is still missing.  The formula states the claim for the  *)
(* objects with a nonzero id.                                              *)
(***************************************************************************)
C13_CountedOnce ==
    [][ /\ \A p \in KeptRelations : TimesCompleted(p)' <= 1
        /\ (phase = "pass2" /\ npos' = npos + 1 /\ last'.arg \in seen
               /\ last'.arg.id # 0) =>
               \A p \in 1 .. Len(m_relations) :
                   m_relations'[p].need_members = m_relations[p].need_members
      ]_vars

(***************************************************************************)
(* C14.  When a compaction of the members buffer moves a surviving object  *)
(* from offset A to offset B, moving_in_buffer leaves every MemberMeta of  *)
(* the object's kind and id with buffer_offset B and every other           *)
(* MemberMeta as it was; and in every state, also after a compaction, the  *)
(* lookup by kind and id of a member that has arrived, for a relation that *)
(* has not been completed, yields the one stored copy of that object,      *)
(* which is not flagged removed.                                           *)
(***************************************************************************)
\* the calls of moving_in_buffer made by the most recent handler call
Moves == { i \in 1 .. Len(last.hooks) : last.hooks[i].hook = "moving_in_buffer" }

\* the kept relations that wait for a member
Waiting == { p \in KeptRelations : TimesCompleted(p) = 0 }

C14_Relocation ==
    /\ ~assert_failed
    /\ \A i \in Moves :
          LET h == last.hooks[i]
          IN  /\ h.old_offset # h.new_offset
              /\ \A kind \in Kinds :
                    /\ Len(h.mm_after[kind]) = Len(h.mm[kind])
                    /\ \A n \in 1 .. Len(h.mm[kind]) :
                          h.mm_after[kind][n] =
                              IF kind = h.object.type /\ h.mm[kind][n].member_id = h.object.id
                              THEN [h.mm[kind][n] EXCEPT !.buffer_offset = h.new_offset]
                              ELSE h.mm[kind][n]
    /\ \A p \in Waiting : \A k \in 1 .. Len(wanted[p]) :
          LET member == wanted[p][k]
              found == get_offset(Collector, member.type, member.ref)
              offset == found.offset
          IN  TargetOf(member) \in seen =>
                  /\ ~found.failed
                  /\ MemberOffsetValid(Collector, offset)
                  /\ m_members_buffer[offset + 1].type = member.type
                  /\ m_members_buffer[offset + 1].id = member.ref
                  /\ ~m_members_buffer[offset + 1].removed
                  /\ Cardinality(CopiesOf(member.type, member.ref)) = 1

\* a compaction has moved a member of a relation that still waits for
\* another member, and that member is shared with a completed relation
C14_Witness ==
    \E i \in Moves : \E p \in Waiting :
        /\ m_relations[p].need_members >= 1
        /\ \E k \in 1 .. Len(wanted[p]) :
              /\ wanted[p][k].type = last.hooks[i].object.type
              /\ wanted[p][k].ref = last.hooks[i].object.id
        /\ Cardinality({ n \in 1 .. Len(m_member_meta[last.hooks[i].object.type]) :
              m_member_meta[last.hooks[i].object.type][n].member_id =
                  last.hooks[i].object.id }) >= 2

(***************************************************************************)
(* The parts of C15.  The status of an entry is followed through a step:   *)
(* before the call, at each completion callback that the call runs, and    *)
(* after the call.                                                         *)
(***************************************************************************)
CountsAddUp(v) ==
    LET counts == mdb_count(v)
    IN  /\ counts.tracked + counts.available + counts.removed = mdb_size(v)
        /\ mdb_size(v) = tracks

NoneTrackedAtCallback(op) ==
    \A n \in 1 .. Len(op.callbacks) :
        LET call == op.callbacks[n]
        IN  \A i \in 1 .. Len(call.mdb) :
                call.mdb[i].relation_pos = call.relation => Status(call.mdb[i]) # "tracked"

\* the most recent operation ran the completion callback of the entry's
\* relation, and the callback saw the entry as available
SeenAvailable(op, i) ==
    \E n \in 1 .. Len(op.callbacks) :
        /\ op.callbacks[n].relation = mdb[i].relation_pos
        /\ Status(op.callbacks[n].mdb[i]) = "available"

\* the most recent operation was the remove() for the entry
RemoveCalledFor(op, i) ==
    /\ op.op = "remove"
    /\ op.arg.member_id = mdb[i].member_id
    /\ op.arg.relation_id = rdb[mdb[i].relation_pos + 1].relation.id

\* the status of entry i before the step, at each callback of the step in
\* call order, and after the step
EntryPath(i) ==
    << Status(mdb[i]) >>
        \o [n \in 1 .. Len(dblast'.callbacks) |-> Status(dblast'.callbacks[n].mdb[i])]
        \o << Status(mdb'[i]) >>

\* the moves of the claim: tracked -> available in the add() of the entry's
\* object, available -> removed by a remove() for the entry, called
\* directly or by the completion callback of its relation
StatedMove(i, before, after) ==
    \/ after = before
    \/ /\ before = "tracked"
       /\ after = "available"
       /\ dblast'.op = "add"
       /\ dblast'.arg = mdb[i].member_id
    \/ /\ before = "available"
       /\ after = "removed"
       /\ RemoveCalledFor(dblast', i) \/ SeenAvailable(dblast', i)

\* the entry keeps its identity over the call
EntryKept(i) ==
    /\ mdb'[i].member_id = mdb[i].member_id
    /\ mdb'[i].relation_pos = mdb[i].relation_pos
    /\ mdb'[i].member_num = mdb[i].member_num

\* the moves on the path of the entry, numbered by their first position
EntrySteps(i) == 1 .. Len(EntryPath(i)) - 1

(***************************************************************************)
(* C15, as stated.  For a MembersDatabase after prepare(): the three       *)
(* counts of count() add up to size(), and size() is the number of track() *)
(* calls; an entry only moves tracked -> available (in the add() of its    *)
(* object) -> removed (by remove() for its member id and relation); and    *)
(* whenever the completion callback of a relation runs, none of that       *)
(* relation's entries is tracked.                                          *)
(***************************************************************************)
C15_AsStated ==
    [][ /\ prepared' => CountsAddUp(mdb') /\ NoneTrackedAtCallback(dblast')
        /\ prepared => /\ Len(mdb') = Len(mdb)
                       /\ \A i \in 1 .. Len(mdb) :
                             /\ EntryKept(i)
                             /\ \A k \in EntrySteps(i) :
                                   StatedMove(i, EntryPath(i)[k], EntryPath(i)[k + 1]) ]_vars

\* the moves of the claim and the remove() of an entry that is still tracked
ActualMove(i, before, after) ==
    \/ StatedMove(i, before, after)
    \/ /\ before = "tracked"
       /\ after = "removed"
       /\ RemoveCalledFor(dblast', i)

(***************************************************************************)
(* C15.  As stated, except that a remove() called directly for an entry    *)
(* whose object has not been added takes the entry from tracked straight   *)
(* to removed.  Inside an add() every entry that ends up removed was       *)
(* available when the completion callback of its relation ran.             *)
(***************************************************************************)
C15_MembersDatabaseCounts ==
    [][ /\ prepared' => CountsAddUp(mdb') /\ NoneTrackedAtCallback(dblast')
        /\ prepared => /\ Len(mdb') = Len(mdb)
                       /\ \A i \in 1 .. Len(mdb) :
                             /\ EntryKept(i)
                             /\ \A k \in EntrySteps(i) :
                                   ActualMove(i, EntryPath(i)[k], EntryPath(i)[k + 1]) ]_vars

\* the callback of a relation that refers twice to the same member has run
\* and removed the members
C15_Witness ==
    /\ prepared
    /\ dblast.op = "add"
    /\ \E n \in 1 .. Len(dblast.callbacks) :
          LET call == dblast.callbacks[n]
          IN  \E i, j \in 1 .. Len(call.mdb) :
                /\ i # j
                /\ call.mdb[i].relation_pos = call.relation
                /\ call.mdb[j].relation_pos = call.relation
                /\ call.mdb[i].member_id = call.mdb[j].member_id
                /\ Status(call.mdb[i]) = "available"
                /\ Status(mdb[i]) = "removed"
                /\ Status(mdb[j]) = "removed"

(***************************************************************************)
(* C16, as stated.  RelationsDatabase::size() equals the number of the     *)
(* relations that were added and have not been removed through their       *)
(* handle.                                                                 *)
(***************************************************************************)
Live == { handle \in 0 .. Len(rdb) - 1 : ~rdb[handle + 1].removed }

C16_AsStated == rdb_size(rdb) = Cardinality(Live)

(***************************************************************************)
(* C16.  While no relation has been removed, size() equals the number of   *)
(* live relations; removing a relation through its handle leaves size()    *)
(* as it is and takes the relation out of get_relations(): after the only  *)
(* relation is removed, size() is 1 and get_relations() is empty.          *)
(***************************************************************************)
C16_SizeKeepsRemoved ==
    [][ /\ Cardinality(Live') = Len(rdb') => rdb_size(rdb') = Cardinality(Live')
        /\ dblast'.op \in {"rel_handle.remove", "add"} =>
              /\ rdb_size(rdb') = rdb_size(rdb)
              /\ Len(get_relations(rdb')) = Cardinality(Live')
              /\ \A n \in 1 .. Len(get_relations(rdb')) : get_relations(rdb')[n] \in Live'
        /\ Len(rdb') = 1 /\ Live' = {} =>
              rdb_size(rdb') = 1 /\ get_relations(rdb') = << >> ]_vars

\* the only relation of the database has been removed by its completion
\* callback
C16_Witness ==
    /\ Len(rdb) = 1
    /\ Live = {}
    /\ dblast.op = "add"
    /\ Len(dblast.callbacks) = 1
    /\ mdb_count(mdb).removed = mdb_size(mdb)
    /\ mdb_size(mdb) >= 2

(***************************************************************************)
(* C17.  equal(s) matches t iff s = t; list([s1..sn]) matches t iff some   *)
(* si = t, so the empty list matches nothing; always_true matches every t; *)
(* always_false, which is also the default-constructed matcher, matches    *)
(* no t.                                                                   *)
(***************************************************************************)
Called == result # << >>

Returned == result[1]

C17_ExactVariants ==
    /\ Called =>
          /\ m_matcher = StringMatcherDefault => Returned = FALSE
          /\ m_matcher.variant = "always_false" => Returned = FALSE
          /\ m_matcher.variant = "always_true" => Returned = TRUE
          /\ m_matcher.variant = "equal" => Returned = (m_matcher.m_str = test_string)
          /\ m_matcher.variant = "list" =>
                Returned = (\E i \in 1 .. Len(m_matcher.m_strings) :
                             m_matcher.m_strings[i] = test_string)

\* a list matcher has matched its second string, of which its first string
\* is a proper prefix
C17_Witness ==
    /\ Called
    /\ m_matcher.variant = "list"
    /\ Len(m_matcher.m_strings) = 2
    /\ m_matcher.m_strings[2] = test_string
    /\ Len(m_matcher.m_strings[1]) < Len(test_string)
    /\ m_matcher.m_strings[1] = SubSeq(test_string, 1, Len(m_matcher.m_strings[1]))
    /\ Returned = TRUE

(***************************************************************************)
(* C18.  prefix(s) matches t iff t starts with s: the empty s matches      *)
(* every t, a t shorter than s is not matched, t = s is matched.           *)
(***************************************************************************)
StartsWith(t, s) == Len(s) <= Len(t) /\ \A i \in 1 .. Len(s) : t[i] = s[i]

C18_Prefix ==
    Called /\ m_matcher.variant = "prefix" =>
        Returned = StartsWith(test_string, m_matcher.m_str)

\* a prefix matcher has matched a test string longer than its stored string
C18_Witness ==
    /\ Called
    /\ m_matcher.variant = "prefix"
    /\ m_matcher.m_str # << >>
    /\ Len(m_matcher.m_str) < Len(test_string)
    /\ Returned = TRUE

(***************************************************************************)
(* C19.  substring(s) matches t iff t contains s as a contiguous           *)
(* substring: the stored string is the needle, the test string the         *)
(* haystack.                                                               *)
(***************************************************************************)
Contains(t, s) ==
    \E p \in 0 .. Len(t) - Len(s) : \A i \in 1 .. Len(s) : t[p + i] = s[i]

C19_Substring ==
    Called /\ m_matcher.variant = "substring" =>
        Returned = Contains(test_string, m_matcher.m_str)

\* a substring matcher has matched a longer test string that does not start
\* with the stored string
C19_Witness ==
    /\ Called
    /\ m_matcher.variant = "substring"
    /\ m_matcher.m_str # << >>
    /\ Len(m_matcher.m_str) < Len(test_string)
    /\ ~StartsWith(test_string, m_matcher.m_str)
    /\ Returned = TRUE

(***************************************************************************)
(* C20, as documented on the class.  substring(s) matches t exactly when   *)
(* the test string t occurs within the stored string s.                    *)
(***************************************************************************)
C20_AsDocumented ==
    Called /\ m_matcher.variant = "substring" =>
        Returned = Contains(m_matcher.m_str, test_string)

(***************************************************************************)
(* C22, as stated.  After read_relations and after every pass-2 handler    *)
(* call, the need_members of every RelationMeta equals the number of       *)
(* MemberMeta records with its relation_pos that are not removed and whose *)
(* target object has not yet arrived in the pass-2 stream.                 *)
(***************************************************************************)
\* the unremoved MemberMeta records of the relation at position rp whose
\* object has not been in the stream, as (kind, index) pairs
NotArrived(rp) ==
    { rec \in MemberMetasOf(rp) :
        /\ ~m_member_meta[rec[1]][rec[2]].removed
        /\ [type |-> rec[1], id |-> m_member_meta[rec[1]][rec[2]].member_id] \notin seen }

C22_AsStated ==
    phase # "pass1" =>
        \A rp \in 0 .. Len(m_relations) - 1 :
            m_relations[rp + 1].need_members = Cardinality(NotArrived(rp))

(***************************************************************************)
(* C22.  I2: after read_relations and after every pass-2 handler call, the *)
(* need_members of every RelationMeta equals the number of MemberMeta      *)
(* records with its relation_pos that are not removed and whose            *)
(* buffer_offset is still the sentinel; for a kind the collector handles,  *)
(* an unremoved MemberMeta has the sentinel exactly when its object has    *)
(* not arrived; a MemberMeta of a kind disabled at type level keeps the    *)
(* sentinel and is never removed, whether its object has arrived or not.   *)
(***************************************************************************)
\* the MemberMeta records of the relation at position rp that wait for
\* their object, as (kind, index) pairs
Outstanding(rp) ==
    { rec \in MemberMetasOf(rp) :
        /\ ~m_member_meta[rec[1]][rec[2]].removed
        /\ m_member_meta[rec[1]][rec[2]].buffer_offset = NoOffset }

C22_NeedMembersCountsOutstanding ==
    phase # "pass1" =>
        /\ \A rp \in 0 .. Len(m_relations) - 1 :
              m_relations[rp + 1].need_members = Cardinality(Outstanding(rp))
        /\ \A kind \in Kinds : \A i \in 1 .. Len(m_member_meta[kind]) :
              LET mm == m_member_meta[kind][i]
              IN  IF enabled[kind]
                  THEN ~mm.removed =>
                          (mm.buffer_offset = NoOffset
                              <=> [type |-> kind, id |-> mm.member_id] \notin seen)
                  ELSE mm.buffer_offset = NoOffset /\ ~mm.removed

\* a pass-2 handler call has stored one of the two members of a relation,
\* which waits for the other one
C22_Witness ==
    /\ phase = "pass2"
    /\ last.op = "pass2"
    /\ \E rp \in 0 .. Len(m_relations) - 1 :
          /\ m_relations[rp + 1].need_members = 1
          /\ Cardinality(MemberMetasOf(rp)) = 2
          /\ Cardinality(Outstanding(rp)) = 1
          /\ \E rec \in MemberMetasOf(rp) :
                /\ m_member_meta[rec[1]][rec[2]].member_id = last.arg.id
                /\ rec[1] = last.arg.type
                /\ m_member_meta[rec[1]][rec[2]].buffer_offset # NoOffset

(***************************************************************************)
(* C23, as stated.  Once complete_relation has been invoked for a relation *)
(* and clear_member_metas has run, every MemberMeta created for that       *)
(* relation is marked removed, whatever the ref of the member.             *)
(***************************************************************************)
C23_AllRemovedAfterCompletion ==
    \A p \in KeptRelations :
        TimesCompleted(p) >= 1 =>
            \A rec \in MemberMetasOf(p - 1) : m_member_meta[rec[1]][rec[2]].removed

(***************************************************************************)
(* C24.  I3, between pass-2 handler calls: a stored member object is not   *)
(* flagged removed if and only if some unremoved MemberMeta of its kind    *)
(* and id has its buffer_offset set to it; and every unremoved MemberMeta  *)
(* whose buffer_offset is set refers to the stored, unflagged object of    *)
(* its kind and id, so an object shared by several relations is not        *)
(* flagged before the last of them is cleared.                             *)
(***************************************************************************)
\* the unremoved MemberMeta records that refer to the item at offset
LiveReferences(offset) ==
    LET item == m_members_buffer[offset + 1]
    IN  { i \in 1 .. Len(m_member_meta[item.type]) :
            /\ m_member_meta[item.type][i].member_id = item.id
            /\ m_member_meta[item.type][i].buffer_offset = offset
            /\ ~m_member_meta[item.type][i].removed }

C24_LiveIffReferenced ==
    /\ \A offset \in 0 .. Len(m_members_buffer) - 1 :
          ~m_members_buffer[offset + 1].removed <=> LiveReferences(offset) # {}
    /\ \A kind \in Kinds : \A i \in 1 .. Len(m_member_meta[kind]) :
          LET meta == m_member_meta[kind][i]
          IN  ~meta.removed /\ meta.buffer_offset # NoOffset =>
                  /\ MemberOffsetValid(Collector, meta.buffer_offset)
                  /\ m_members_buffer[meta.buffer_offset + 1].type = kind
                  /\ m_members_buffer[meta.buffer_offset + 1].id = meta.member_id
                  /\ ~m_members_buffer[meta.buffer_offset + 1].removed

\* an object shared by two relations is still stored after the handler
\* call that completed and cleared one of them
C24_Witness ==
    /\ last.op = "pass2"
    /\ CompleteCalls # {}
    /\ \E offset \in 0 .. Len(m_members_buffer) - 1 :
          LET item == m_members_buffer[offset + 1]
          IN  /\ ~item.removed
              /\ LiveReferences(offset) # {}
              /\ \E i \in 1 .. Len(m_member_meta[item.type]) :
                    /\ m_member_meta[item.type][i].member_id = item.id
                    /\ m_member_meta[item.type][i].removed

(***************************************************************************)
(* C25.  I1: once read_relations has returned, every MemberMeta has a      *)
(* relation_pos below m_relations.size() that is the position of the       *)
(* relation it was created for (the member at member_pos of that relation  *)
(* has the kind of the vector and the ref member_id), and each of the      *)
(* three vectors is non-decreasing in member_id.                           *)
(***************************************************************************)
CreatedFor(kind, meta) ==
    /\ meta.relation_pos >= 0
    /\ meta.relation_pos < Len(m_relations)
    /\ meta.relation_pos < Len(wanted)
    /\ \E k \in 1 .. Len(wanted[meta.relation_pos + 1]) :
          wanted[meta.relation_pos + 1][k] =
              [type |-> kind, ref |-> meta.member_id, pos |-> meta.member_pos]
    /\ TimesCompleted(meta.relation_pos + 1) = 0 =>
          LET relation_meta == m_relations[meta.relation_pos + 1]
          IN  /\ RelationOffsetValid(Collector, relation_meta.relation_offset)
              /\ meta.member_pos < Len(get_relation(Collector,
                                          relation_meta.relation_offset).members)
              /\ get_relation(Collector, relation_meta.relation_offset)
                     .members[meta.member_pos + 1] =
                         [type |-> kind, ref |-> meta.member_id]

C25_IndexValidAndSorted ==
    phase # "pass1" =>
        \A kind \in Kinds :
            /\ IsSortedByMemberId(m_member_meta[kind])
            /\ \A i \in 1 .. Len(m_member_meta[kind]) :
                  CreatedFor(kind, m_member_meta[kind][i])

\* read_relations has just returned with two relations whose members of
\* one kind were sorted into the reverse of the order they were added in
C25_Witness ==
    /\ phase = "pass2"
    /\ last.op = "sort"
    /\ Len(m_relations) = 2
    /\ \E kind \in Kinds :
          /\ Len(m_member_meta[kind]) = 2
          /\ m_member_meta[kind][1].relation_pos = 1
          /\ m_member_meta[kind][2].relation_pos = 0
          /\ m_member_meta[kind][1].member_id < m_member_meta[kind][2].member_id

(***************************************************************************)
(* C26.  add_relation handles each member of the copied relation once: a   *)
(* member at position n accepted by keep_member gets exactly one           *)
(* MemberMeta (ref, index the relation gets in m_relations, n) appended to *)
(* the vector of its kind and counts in need_members; a rejected member    *)
(* gets ref 0 in the copy and no MemberMeta.  So the need_members of a     *)
(* kept relation is its number of accepted members and positions count     *)
(* the rejected members too.                                               *)
(***************************************************************************)
\* the MemberMeta records add_relation is to append to the vector of kind
\* for the accepted members kept, in member order
RECURSIVE Expected(_, _, _, _)
Expected(kept, kind, relation_index, k) ==
    IF k > Len(kept) THEN << >>
    ELSE (IF kept[k].type = kind
          THEN << MemberMeta(kept[k].ref, relation_index, kept[k].pos) >>
          ELSE << >>) \o Expected(kept, kind, relation_index, k + 1)

C26_AddRelationMembers ==
    [][ last'.op = "pass1" /\ last'.kept > 0 =>
          LET kept == wanted'[Len(wanted')]
              copy == m_relations_buffer'[Len(m_relations_buffer')]
          IN  /\ Len(wanted') = Len(wanted) + 1
              /\ \A kind \in Kinds :
                    m_member_meta'[kind] =
                        m_member_meta[kind] \o Expected(kept, kind, Len(m_relations), 1)
              /\ m_relations' =
                     Append(m_relations, [relation_offset |-> Len(m_relations_buffer),
                                          need_members |-> Len(kept)])
              /\ Len(m_relations_buffer') = Len(m_relations_buffer) + 1
              /\ Len(copy.members) = last'.members
              /\ \A n \in 0 .. Len(copy.members) - 1 :
                    IF \E k \in 1 .. Len(kept) : kept[k].pos = n
                    THEN \E k \in 1 .. Len(kept) :
                            /\ kept[k].pos = n
                            /\ copy.members[n + 1] =
                                   [type |-> kept[k].type, ref |-> kept[k].ref]
                    ELSE copy.members[n + 1].ref = 0 ]_vars

\* add_relation has handled a relation whose first member was rejected and
\* whose second member was accepted
C26_Witness ==
    /\ last.op = "pass1"
    /\ last.members = 2
    /\ last.kept = 1
    /\ wanted[Len(wanted)][1].pos = 1
    /\ wanted[Len(wanted)][1].ref # 0
    /\ m_relations[Len(m_relations)].need_members = 1

(***************************************************************************)
(* C27.  possibly_purge_removed_members counts the completions since the   *)
(* start or since the last compaction and compacts the members buffer on   *)
(* the completion that takes the count above 10 000, which is the 10 001st *)
(* one; the counter then restarts from zero.  Before that completion the   *)
(* buffer is not compacted.  A direct call of the function counts and      *)
(* compacts in the same way as the call that follows a completion.         *)
(***************************************************************************)
\* the complete_relation calls of a handler call, in call order
CompleteSeq(hooks) == SelectSeq(hooks, LAMBDA h : h.hook = "complete_relation")

\* no item of the members buffer has been dropped or moved by the step
NotCompacted ==
    /\ Len(m_members_buffer') >= Len(m_members_buffer)
    /\ \A i \in 1 .. Len(m_members_buffer) :
          /\ m_members_buffer'[i].type = m_members_buffer[i].type
          /\ m_members_buffer'[i].id = m_members_buffer[i].id
    /\ \A i \in 1 .. Len(last'.hooks) : last'.hooks[i].hook # "moving_in_buffer"

\* the buffer was compacted on completion number j of the step: nothing
\* flagged removed is left when the next hook is called or, if j was the
\* last completion, when the handler returns
CompactedOn(j) ==
    LET calls == CompleteSeq(last'.hooks)
        buffer == IF j < Len(calls) THEN calls[j + 1].mb ELSE m_members_buffer'
    IN  \A i \in 1 .. Len(buffer) : ~buffer[i].removed

\* the claim as stated: the completion that takes the count to 10 000
\* compacts and resets the counter
C27_AsStated ==
    [][ /\ last'.op = "pass2"
        /\ CompleteSeq(last'.hooks) # << >>
        /\ m_count_complete + Len(CompleteSeq(last'.hooks)) = PurgeThreshold
        => m_count_complete' = 0 ]_vars

\* a direct call counts like one completion
C27_PurgeAboveThreshold ==
    [][ /\ last'.op = "pass2" =>
             LET n == Len(CompleteSeq(last'.hooks))
             IN  IF m_count_complete + n <= PurgeThreshold
                 THEN /\ m_count_complete' = m_count_complete + n
                      /\ NotCompacted
                 ELSE /\ m_count_complete' = m_count_complete + n - (PurgeThreshold + 1)
                      /\ CompactedOn(PurgeThreshold + 1 - m_count_complete)
        /\ last'.op = "purge" =>
             IF m_count_complete + 1 <= PurgeThreshold
             THEN /\ m_count_complete' = m_count_complete + 1
                  /\ NotCompacted
                  /\ m_members_buffer' = m_members_buffer
                  /\ m_member_meta' = m_member_meta
             ELSE /\ m_count_complete' = 0
                  /\ m_members_buffer' =
                         SelectSeq(m_members_buffer, LAMBDA item : ~item.removed) ]_vars

\* a completion has taken the count above the threshold: the counter is
\* back at zero and the members of the completed relation have left the
\* buffer
C27_Witness ==
    /\ last.op = "pass2"
    /\ m_count_complete = 0
    /\ \E i \in CompleteCalls : Len(last.hooks[i].mb) > Len(m_members_buffer)

(***************************************************************************)
(* C28.  moving_in_buffer is called only from the compaction that          *)
(* possibly_purge_removed_members starts, after complete_relation has      *)
(* returned: when the hook is called the MemberMeta records of the         *)
(* completed relation are not yet removed and its slot of m_relations is   *)
(* not yet reset; when an object is moved, the hook called last has        *)
(* returned, it was the completion that took the counter above the         *)
(* threshold, the MemberMeta records of its relation are removed and its   *)
(* slot is reset.  No move follows an X_not_in_any_relation call.          *)
(***************************************************************************)
\* the indexes of the MemberMeta records of the relation at relation_pos
MetasOf(mm, relation_pos) ==
    { x \in Kinds \X (1 .. MaxMembersMove) :
        /\ x[2] <= Len(mm[x[1]])
        /\ mm[x[1]][x[2]].relation_pos = relation_pos }

\* what the complete_relation hook finds when it is called
AtHookCall(h) ==
    /\ \A x \in MetasOf(h.mm, h.relation_pos) : ~h.mm[x[1]][x[2]].removed
    /\ h.rels[h.relation_pos + 1] =
           [relation_offset |-> m_relations[h.relation_pos + 1].relation_offset,
            need_members |-> 0]

\* what moving_in_buffer finds of the relation whose hook was called last:
\* clear_member_metas has run (it passes over the members with ref 0)
AtMove(h, relation_pos) ==
    /\ \A x \in MetasOf(h.mm, relation_pos) :
          h.mm[x[1]][x[2]].member_id # 0 => h.mm[x[1]][x[2]].removed
    /\ h.rels[relation_pos + 1] = RelationMetaDefault

C28_CompactionAfterHook ==
    [][ last'.op = "pass2" =>
          LET hooks == last'.hooks
              calls == { i \in 1 .. Len(hooks) : hooks[i].hook = "complete_relation" }
              moves == { i \in 1 .. Len(hooks) : hooks[i].hook = "moving_in_buffer" }
          IN  /\ \A j \in calls : AtHookCall(hooks[j])
              /\ \A i \in moves : \E j \in calls :
                    /\ j < i
                    /\ \A k \in j + 1 .. i - 1 : k \in moves
                    /\ m_count_complete + Cardinality({ c \in calls : c <= j }) =
                           PurgeThreshold + 1
                    /\ AtMove(hooks[i], hooks[j].relation_pos) ]_vars

\* the completion of the relation at position 1 was followed by a
\* compaction that moved an object: the slot still held the relation's
\* offset when the hook was called and was reset when the object moved
C28_Witness ==
    \E i \in Moves : \E j \in CompleteCalls :
        /\ j < i
        /\ last.hooks[j].relation_pos = 1
        /\ last.hooks[j].rels[2].relation_offset = 1
        /\ last.hooks[i].rels[2] = RelationMetaDefault
        /\ \E x \in MetasOf(last.hooks[j].mm, 1) :
              /\ ~last.hooks[j].mm[x[1]][x[2]].removed
              /\ last.hooks[i].mm[x[1]][x[2]].removed

(***************************************************************************)
(* C29.  When the relation at index p of m_relations completes,            *)
(* clear_member_metas marks removed exactly the not yet removed MemberMeta *)
(* records with relation_pos p and none of another relation, also when two *)
(* kept relations carry the same id or share members: the records a        *)
(* handler call marks removed are the unremoved records of the relations   *)
(* it completes.                                                           *)
(***************************************************************************)
\* the positions of the relations the step completes
CompletedByStep ==
    { last'.hooks[j].relation_pos :
        j \in { i \in 1 .. Len(last'.hooks) : last'.hooks[i].hook = "complete_relation" } }

C29_ClearsOwnMetas ==
    [][ last'.op = "pass2" =>
          \A kind \in Kinds : \A i \in 1 .. Len(m_member_meta[kind]) :
              ~m_member_meta[kind][i].removed =>
                  (m_member_meta'[kind][i].removed <=>
                       m_member_meta[kind][i].relation_pos \in CompletedByStep) ]_vars

(***************************************************************************)
(* C30.  All MemberMeta records of one (kind, member_id) whose object has  *)
(* arrived carry the same buffer_offset; as long as one of them is not     *)
(* removed, that offset is the position of the one stored copy of the      *)
(* object (once all are removed the copy may have been compacted away and  *)
(* the offset is stale); and the assertion of moving_in_buffer holds for   *)
(* every object a compaction moves.                                        *)
(***************************************************************************)
\* the indexes of the MemberMeta records of the object (kind, id)
RecordsOf(kind, id) ==
    { i \in 1 .. Len(m_member_meta[kind]) : m_member_meta[kind][i].member_id = id }

\* the records of (kind, id) carry one offset
SameOffset(kind, id) ==
    \A i, j \in RecordsOf(kind, id) :
        m_member_meta[kind][i].buffer_offset = m_member_meta[kind][j].buffer_offset

\* the offset of the records of (kind, id) is the position of the one
\* stored copy of the object
AtStoredCopy(kind, id) ==
    \A i \in RecordsOf(kind, id) :
        LET offset == m_member_meta[kind][i].buffer_offset
        IN  /\ MemberOffsetValid(Collector, offset)
            /\ m_members_buffer[offset + 1].type = kind
            /\ m_members_buffer[offset + 1].id = id
            /\ Cardinality(CopiesOf(kind, id)) = 1

\* the assertion of moving_in_buffer held in every call of the most recent
\* handler call
MovesAsserted ==
    /\ ~assert_failed
    /\ \A m \in Moves :
          LET h == last.hooks[m]
          IN  \A i \in 1 .. Len(h.mm[h.object.type]) :
                  h.mm[h.object.type][i].member_id = h.object.id =>
                      h.mm[h.object.type][i].buffer_offset = h.old_offset

Arrived == { object \in seen : enabled[object.type] /\ RecordsOf(object.type, object.id) # {} }

\* the claim as stated: the offset is the position of the stored copy for
\* every object that has arrived
C30_AsStated ==
    /\ MovesAsserted
    /\ \A object \in Arrived :
          /\ SameOffset(object.type, object.id)
          /\ AtStoredCopy(object.type, object.id)

C30_OneOffsetPerObject ==
    /\ MovesAsserted
    /\ \A object \in Arrived :
          /\ SameOffset(object.type, object.id)
          /\ (\E i \in RecordsOf(object.type, object.id) :
                  ~m_member_meta[object.type][i].removed)
                => AtStoredCopy(object.type, object.id)

\* a compaction has moved an object that has a removed and an unremoved
\* MemberMeta record, and both carry the new offset
C30_Witness ==
    \E m \in Moves :
        LET h == last.hooks[m]
            records == RecordsOf(h.object.type, h.object.id)
        IN  /\ \E i, j \in records :
                  /\ m_member_meta[h.object.type][i].removed
                  /\ ~m_member_meta[h.object.type][j].removed
            /\ \A i \in records :
                  m_member_meta[h.object.type][i].buffer_offset = h.new_offset

(***************************************************************************)
(* C31.  The lookup of a pass-2 object of kind K is kind-specific: only    *)
(* records of the vector of kind K with the object's id get the buffer     *)
(* offset and count down need_members.  A record in the vector of another  *)
(* kind is changed only by what follows a completion: clear_member_metas   *)
(* marks it removed when it belongs to a member of a relation completed by *)
(* the call, and moving_in_buffer rewrites its offset when the compaction  *)
(* moves its object.                                                       *)
(***************************************************************************)
\* the claim as stated: the vectors of the other kinds are left alone
C31_AsStated ==
    [][ last'.op = "pass2" =>
          \A kind \in Kinds \ {last'.arg.type} :
              m_member_meta'[kind] = m_member_meta[kind] ]_vars

\* a relation completed by the step has a kept member (kind, id)
MemberOfCompleted(kind, id) ==
    \E p \in CompletedByStep : \E k \in 1 .. Len(wanted[p + 1]) :
        /\ wanted[p + 1][k].type = kind
        /\ wanted[p + 1][k].ref = id

\* a compaction of the step has moved the object (kind, id)
MovedByStep(kind, id) ==
    \E m \in 1 .. Len(last'.hooks) :
        /\ last'.hooks[m].hook = "moving_in_buffer"
        /\ last'.hooks[m].object.type = kind
        /\ last'.hooks[m].object.id = id

\* the records of the vector of kind for the object: those the lookup matches
Matched(kind, object, p) ==
    { i \in 1 .. Len(m_member_meta[kind]) :
        /\ kind = object.type
        /\ enabled[kind]
        /\ m_member_meta[kind][i].member_id = object.id
        /\ m_member_meta[kind][i].relation_pos = p }

C31_KindSpecificLookup ==
    [][ last'.op = "pass2" =>
          /\ \A kind \in Kinds \ {last'.arg.type} :
                /\ Len(m_member_meta'[kind]) = Len(m_member_meta[kind])
                /\ \A i \in 1 .. Len(m_member_meta[kind]) :
                      LET old == m_member_meta[kind][i]
                          new == m_member_meta'[kind][i]
                      IN  /\ new.member_id = old.member_id
                          /\ new.relation_pos = old.relation_pos
                          /\ new.member_pos = old.member_pos
                          /\ new.buffer_offset # old.buffer_offset =>
                                 MovedByStep(kind, old.member_id)
                          /\ new.removed # old.removed =>
                                 new.removed /\ MemberOfCompleted(kind, old.member_id)
          /\ \A p \in 0 .. Len(m_relations) - 1 :
                m_relations'[p + 1].need_members # m_relations[p + 1].need_members =>
                    /\ Matched(last'.arg.type, last'.arg, p) # {}
                    /\ m_relations'[p + 1].need_members >=
                           m_relations[p + 1].need_members -
                               Cardinality(Matched(last'.arg.type, last'.arg, p)) ]_vars

\* a way has completed a relation that also has a node member with the
\* id of the way: the record of the node was marked removed by the call
C31_Witness ==
    /\ last.op = "pass2"
    /\ last.arg.type = "way"
    /\ \E j \in CompleteCalls : \E i \in 1 .. Len(m_member_meta["node"]) :
          /\ m_member_meta["node"][i].member_id = last.arg.id
          /\ m_member_meta["node"][i].removed
          /\ ~last.hooks[j].mm["node"][i].removed
          /\ m_member_meta["node"][i].relation_pos = last.hooks[j].relation_pos

(***************************************************************************)
(* C32.  In every run of read_relations followed by pass-2 objects and     *)
(* calls of clean_assembled_relations in any order, the assertions of      *)
(* find_and_add_object hold, and clean_assembled_relations removes exactly *)
(* the entries of m_relations that wait for no member and keeps the others *)
(* in their order.                                                         *)
(***************************************************************************)
C32_AssertionsHold ==
    [][ /\ last'.op = "clean" =>
              m_relations' = SelectSeq(m_relations, LAMBDA rm : rm.need_members # 0)
        /\ ~assert_failed' ]_vars

====
